---- MODULE Spec2Model ----
(***************************************************************************)
(* A model of the execution engine of Matrix Brandy BASIC: the Basic       *)
(* value stack (stack.c) and the statement handlers that push and pop      *)
(* control frames on it (mainstate.c).                                     *)
(*                                                                         *)
(* Conventions of the model                                                *)
(*   - the Basic stack grows downwards; 'stack' lists its frames with the  *)
(*     top frame first and 'stacktop' is the byte address of the top frame *)
(*   - a pointer to a frame (procstack, gosubstack, lastcall) is the       *)
(*     address of that frame, NIL is 0                                     *)
(*   - a float64 is written as a whole number of halves (3 is 1.5), so     *)
(*     that conversions to integer have a fraction to lose                 *)
(*   - 64-bit integers are drawn from the range the checker's integers     *)
(*     can hold                                                            *)
(***************************************************************************)
EXTENDS Integers, Sequences, FiniteSets, TLC

VARIABLES
  stack,          \* frames of the Basic stack, top first
  stacktop,       \* basicvars.stacktop.bytesp
  stacklimit,     \* basicvars.stacklimit.bytesp
  safestack,      \* basicvars.safestack.bytesp
  procstack,      \* basicvars.procstack (address of a PROC/FN frame or NIL)
  gosubstack,     \* basicvars.gosubstack
  current,        \* basicvars.current
  error_handler,  \* basicvars.error_handler
  errorislocal,   \* basicvars.errorislocal
  datacur,        \* basicvars.datacur
  varlists,       \* values of the named variables
  memory,         \* basicvars.memory, the byte workspace
  strheap,        \* blocks handed out by alloc_string
  arrays,         \* array descriptors
  errnum,         \* error raised by the statement being run, or "none"
  program,        \* the tokenised program
  escape,         \* basicvars.escape, set when the Escape key is pressed
  outofdata,      \* basicvars.runflags.outofdata
  liblist,        \* basicvars.liblist: the libraries loaded by LIBRARY
  installist,     \* basicvars.installist: the libraries loaded by INSTALL
  lastsearch,     \* basicvars.lastsearch: where the next search for a DEF starts
  curcount,       \* basicvars.curcount: the number of saved values of current
  savedcur,       \* basicvars.savedcur: the saved values of current
  obs             \* history of the run used to state properties

vars == <<stack, stacktop, stacklimit, safestack, procstack, gosubstack,
          current, error_handler, errorislocal, datacur, varlists, memory,
          strheap, arrays, errnum, program, escape, outofdata, liblist,
          installist, lastsearch, curcount, savedcur, obs>>

NIL == 0

\* The interpreter state as one record, as 'basicvars' is one aggregate.
basicvars ==
  [stack |-> stack, stacktop |-> stacktop, stacklimit |-> stacklimit,
   safestack |-> safestack, procstack |-> procstack,
   gosubstack |-> gosubstack, current |-> current,
   error_handler |-> error_handler, errorislocal |-> errorislocal,
   datacur |-> datacur, varlists |-> varlists, memory |-> memory,
   strheap |-> strheap, arrays |-> arrays, errnum |-> errnum,
   program |-> program, escape |-> escape, outofdata |-> outofdata,
   liblist |-> liblist, installist |-> installist,
   lastsearch |-> lastsearch, curcount |-> curcount, savedcur |-> savedcur]

SetBasicvars(m) ==
  /\ stack' = m.stack
  /\ stacktop' = m.stacktop
  /\ stacklimit' = m.stacklimit
  /\ safestack' = m.safestack
  /\ procstack' = m.procstack
  /\ gosubstack' = m.gosubstack
  /\ current' = m.current
  /\ error_handler' = m.error_handler
  /\ errorislocal' = m.errorislocal
  /\ datacur' = m.datacur
  /\ varlists' = m.varlists
  /\ memory' = m.memory
  /\ strheap' = m.strheap
  /\ arrays' = m.arrays
  /\ errnum' = m.errnum
  /\ program' = m.program
  /\ escape' = m.escape
  /\ outofdata' = m.outofdata
  /\ liblist' = m.liblist
  /\ installist' = m.installist
  /\ lastsearch' = m.lastsearch
  /\ curcount' = m.curcount
  /\ savedcur' = m.savedcur

StartBasicvars(m) ==
  /\ stack = m.stack
  /\ stacktop = m.stacktop
  /\ stacklimit = m.stacklimit
  /\ safestack = m.safestack
  /\ procstack = m.procstack
  /\ gosubstack = m.gosubstack
  /\ current = m.current
  /\ error_handler = m.error_handler
  /\ errorislocal = m.errorislocal
  /\ datacur = m.datacur
  /\ varlists = m.varlists
  /\ memory = m.memory
  /\ strheap = m.strheap
  /\ arrays = m.arrays
  /\ errnum = m.errnum
  /\ program = m.program
  /\ escape = m.escape
  /\ outofdata = m.outofdata
  /\ liblist = m.liblist
  /\ installist = m.installist
  /\ lastsearch = m.lastsearch
  /\ curcount = m.curcount
  /\ savedcur = m.savedcur

\* error() leaves the handler at once: the record keeps the error number and
\* every caller stops at the first error it sees.
error(m, errnumber) == IF m.errnum = "none" THEN [m EXCEPT !.errnum = errnumber] ELSE m

Failed(m) == m.errnum # "none"

\* kbd_escpoll looks at the keyboard: the Escape key has been pressed
\* before, or is found pressed now
kbd_escpoll(m, pressed) == m.escape \/ pressed

\* error(ERR_ESCAPE): raising the error acknowledges the key
escape_error(m) == error([m EXCEPT !.escape = FALSE], "ERR_ESCAPE")

(***************************************************************************)
(* stack.c: the kinds of stack entry, in the order of 'stackitem'          *)
(***************************************************************************)
stackitems ==
  <<"STACK_UNKNOWN", "STACK_LVALUE", "STACK_UINT8", "STACK_INT",
    "STACK_INT64", "STACK_FLOAT", "STACK_STRING", "STACK_STRTEMP",
    "STACK_INTARRAY", "STACK_IATEMP", "STACK_UINT8ARRAY", "STACK_U8ATEMP",
    "STACK_INT64ARRAY", "STACK_I64ATEMP", "STACK_FLOATARRAY", "STACK_FATEMP",
    "STACK_STRARRAY", "STACK_SATEMP", "STACK_LOCARRAY", "STACK_LOCSTRING",
    "STACK_GOSUB", "STACK_PROC", "STACK_FN", "STACK_LOCAL", "STACK_RETPARM",
    "STACK_WHILE", "STACK_REPEAT", "STACK_INTFOR", "STACK_INT64FOR",
    "STACK_FLOATFOR", "STACK_ERROR", "STACK_DATA", "STACK_OPSTACK",
    "STACK_RESTART", "STACK_HIGHEST">>

ItemIndex(item) == CHOOSE i \in 1..Len(stackitems) : stackitems[i] = item

\* 'disposable' says whether a stack entry can be simply discarded
disposabletable ==
  <<FALSE, TRUE, TRUE, TRUE, TRUE, TRUE, TRUE, TRUE,
    TRUE, TRUE, TRUE, TRUE, TRUE, TRUE, TRUE, TRUE,
    TRUE, TRUE, TRUE, TRUE, TRUE, TRUE, TRUE, TRUE,
    TRUE, FALSE, FALSE, FALSE, FALSE, FALSE, TRUE, TRUE,
    TRUE, TRUE, TRUE>>

disposable(item) == disposabletable[ItemIndex(item)]

\* 'entrysize' gives the size of each kind of entry: ALIGNSIZE of its block
\* in an LP64 build, with a nominal size for the blocks that hold arrays
entrysize(item) ==
  CASE item \in {"STACK_UNKNOWN", "STACK_UINT8", "STACK_INT"} -> 8
    [] item \in {"STACK_STRING", "STACK_STRTEMP", "STACK_GOSUB",
                 "STACK_WHILE", "STACK_ERROR"} -> 24
    [] item \in {"STACK_INT64", "STACK_FLOAT", "STACK_INTARRAY",
                 "STACK_UINT8ARRAY", "STACK_INT64ARRAY", "STACK_FLOATARRAY",
                 "STACK_STRARRAY", "STACK_LOCARRAY", "STACK_LOCSTRING",
                 "STACK_REPEAT", "STACK_DATA"} -> 16
    [] item \in {"STACK_IATEMP", "STACK_U8ATEMP", "STACK_I64ATEMP",
                 "STACK_FATEMP", "STACK_SATEMP", "STACK_OPSTACK",
                 "STACK_RESTART"} -> 72
    [] item \in {"STACK_PROC", "STACK_LOCAL"} -> 40
    [] item \in {"STACK_FN", "STACK_RETPARM", "STACK_INTFOR",
                 "STACK_INT64FOR", "STACK_FLOATFOR"} -> 56
    [] OTHER -> 0

\* GET_TOPITEM
GET_TOPITEM(m) == Head(m.stack).itemtype

\* Every push moves the stack pointer down by the size of the entry and
\* writes the entry there.
PushFrame(m, frame) ==
  [m EXCEPT !.stacktop = m.stacktop - entrysize(frame.itemtype),
            !.stack = <<frame>> \o m.stack]

\* Every pop moves the stack pointer up by the size it is given.
PopFrame(m, size) ==
  [m EXCEPT !.stacktop = m.stacktop + size, !.stack = Tail(m.stack)]

(***************************************************************************)
(* stack.c: numeric values                                                 *)
(***************************************************************************)
uint8cast(x) == x % 256

push_int(m, x) == PushFrame(m, [itemtype |-> "STACK_INT", value |-> x])

push_uint8(m, x) == PushFrame(m, [itemtype |-> "STACK_UINT8", value |-> x])

push_int64(m, x) == PushFrame(m, [itemtype |-> "STACK_INT64", value |-> x])

push_float(m, x) == PushFrame(m, [itemtype |-> "STACK_FLOAT", value |-> x])

\* A pop_T gives back the pair of the value and the new state; on an entry of
\* another kind it raises ERR_BROKEN and gives 0.
PopValue(m, item) ==
  IF GET_TOPITEM(m) # item
  THEN [val |-> 0, m |-> error(m, "ERR_BROKEN")]
  ELSE [val |-> Head(m.stack).value, m |-> PopFrame(m, entrysize(item))]

\* pop_int64 misread as the pop of a 32-bit entry
pop_int64_narrow(m) == PopValue(m, "STACK_INT")

pop_int(m) == PopValue(m, "STACK_INT")

pop_uint8(m) == PopValue(m, "STACK_UINT8")

pop_int64(m) == PopValue(m, "STACK_INT64")

pop_float(m) == PopValue(m, "STACK_FLOAT")

(***************************************************************************)
(* The workspace: named variables, the byte window and the string heap     *)
(***************************************************************************)
asc_CR == 13

\* An lvalue is what get_lvalue returns: the type of the destination and its
\* address, the name of a variable or an offset into basicvars.memory.
Lvalue(typeinfo, address) == [typeinfo |-> typeinfo, address |-> address]

Deref(m, name) == m.varlists[name]

Assign(m, name, value) == [m EXCEPT !.varlists[name] = value]

Peek(m, offset) == m.memory[offset]

Poke(m, offset, byte) == [m EXCEPT !.memory[offset] = byte % 256]

\* The bytes of a value, low byte first, as store_integer shifts them out
ByteOf(value, n) ==
  IF n = 0 THEN value % 256
  ELSE IF n = 1 THEN (value \div 256) % 256
  ELSE IF n = 2 THEN (value \div 65536) % 256
  ELSE IF n = 3 THEN (value \div 16777216) % 256
  ELSE IF value < 0 THEN 255 ELSE 0

\* The signed 32-bit value held in four bytes, low byte first
WordOf(b0, b1, b2, b3) ==
  b0 + 256 * b1 + 65536 * b2 + 16777216 * (IF b3 >= 128 THEN b3 - 256 ELSE b3)

\* a get_integer that reads the four bytes high byte first
get_integer_bigend(m, offset) ==
  WordOf(Peek(m, offset + 3), Peek(m, offset + 2), Peek(m, offset + 1),
         Peek(m, offset))

get_integer(m, offset) ==
  WordOf(Peek(m, offset), Peek(m, offset + 1), Peek(m, offset + 2),
         Peek(m, offset + 3))

store_integer(m, offset, value) ==
  [m EXCEPT !.memory = [a \in DOMAIN m.memory |->
     IF a \in offset..(offset + 3) THEN ByteOf(value, a - offset)
     ELSE m.memory[a]]]

\* A 64-bit integer as two 32-bit words: lo holds bits 0 to 31 and hi bits 32
\* to 63, each as a signed 32-bit number.  (value >> 32 of store_int64 is hi,
\* and get_int64 masks the two words it reads with 0xFFFFFFFF before it puts
\* the second 32 bits above the first.)
Int64Words(hi, lo) == [hi |-> hi, lo |-> lo]

\* a get_int64 that takes the word at the lower address for the high one
get_int64_swapped(m, offset) ==
  Int64Words(get_integer(m, offset), get_integer(m, offset + 4))

get_int64(m, offset) ==
  Int64Words(get_integer(m, offset + 4), get_integer(m, offset))

store_int64(m, offset, value) ==
  [m EXCEPT !.memory = [a \in DOMAIN m.memory |->
     IF a \in offset..(offset + 3) THEN ByteOf(value.lo, a - offset)
     ELSE IF a \in (offset + 4)..(offset + 7) THEN ByteOf(value.hi, a - offset - 4)
     ELSE m.memory[a]]]

\* A float64 takes eight bytes: the model keeps its number of halves in the
\* low four and the sign in the rest.
get_float(m, offset) == get_integer(m, offset)

store_float(m, offset, value) ==
  [m EXCEPT !.memory = [a \in DOMAIN m.memory |->
     IF a \in offset..(offset + 7) THEN ByteOf(value, a - offset)
     ELSE m.memory[a]]]

\* TOINT fails outside the 32-bit range and otherwise drops the fraction
TruncHalves(f) == IF f >= 0 THEN f \div 2 ELSE -((-f) \div 2)

TOFLOAT(i) == 2 * i

\* get_stringlen: the number of bytes before the first carriage return
RECURSIVE get_stringlen(_, _)
get_stringlen(m, offset) ==
  IF offset \notin DOMAIN m.memory \/ Peek(m, offset) = asc_CR THEN 0
  ELSE 1 + get_stringlen(m, offset + 1)

MemBytes(m, offset, len) == [i \in 1..len |-> Peek(m, offset + i - 1)]

\* memmove of a byte sequence into the workspace
MemMove(m, offset, bytes) ==
  [m EXCEPT !.memory = [a \in DOMAIN m.memory |->
     IF a \in offset..(offset + Len(bytes) - 1) THEN bytes[a - offset + 1]
     ELSE m.memory[a]]]

\* Strings live in heap blocks; a descriptor is (stringlen, stringaddr) and
\* the empty string is the static 'nullstring' (address NIL).
Descriptor(len, addr) == [stringlen |-> len, stringaddr |-> addr]

nullstring == Descriptor(0, NIL)

\* alloc_string of 'len' bytes filled with 'bytes': the heap hands out the
\* lowest block that is free.  The address it gets is NewStringAddr(m, bytes).
NewStringAddr(m, bytes) ==
  LET freed == {i \in 1..Len(m.strheap) : ~m.strheap[i].live} IN
  IF Len(bytes) = 0 THEN NIL
  ELSE IF freed = {} THEN Len(m.strheap) + 1
  ELSE CHOOSE i \in freed : \A j \in freed : i <= j

alloc_string(m, bytes) ==
  LET block == [live |-> TRUE, data |-> bytes] IN
  IF Len(bytes) = 0 THEN m
  ELSE IF NewStringAddr(m, bytes) > Len(m.strheap)
  THEN [m EXCEPT !.strheap = Append(@, block)]
  ELSE [m EXCEPT !.strheap[NewStringAddr(m, bytes)] = block]

free_string(m, descriptor) ==
  IF descriptor.stringaddr = NIL THEN m
  ELSE [m EXCEPT !.strheap[descriptor.stringaddr].live = FALSE]

StringBytes(m, descriptor) ==
  IF descriptor.stringaddr = NIL THEN <<>>
  ELSE SubSeq(m.strheap[descriptor.stringaddr].data, 1, descriptor.stringlen)

\* F of the value of v, with v worked out once
With(v, F(_)) == CHOOSE r \in {F(x) : x \in {v}} : TRUE

\* Run F on m unless an error has already ended the statement
Then(m, F(_)) == With(m, LAMBDA x : IF Failed(x) THEN x ELSE F(x))

(***************************************************************************)
(* stack.c: control blocks                                                 *)
(***************************************************************************)
\* The pushes of control blocks move the stack pointer first and then check
\* it against the stack limit.
PushControl(m, frame) ==
  LET sp == m.stacktop - entrysize(frame.itemtype) IN
  IF sp < m.stacklimit THEN error([m EXCEPT !.stacktop = sp], "ERR_STACKFULL")
  ELSE [m EXCEPT !.stacktop = sp,
                 !.stack = <<[frame EXCEPT !.addr = sp]>> \o m.stack]

push_proc(m, name, count) ==
  LET n == PushControl(m, [itemtype |-> "STACK_PROC", addr |-> NIL,
                           lastcall |-> m.procstack, retaddr |-> m.current,
                           parmcount |-> count, fnprocname |-> name]) IN
  IF Failed(n) THEN n ELSE [n EXCEPT !.procstack = n.stacktop]

push_fn(m, name, count) ==
  LET n == PushControl(m, [itemtype |-> "STACK_FN", addr |-> NIL,
                           lastcall |-> m.procstack, retaddr |-> m.current,
                           parmcount |-> count, fnprocname |-> name]) IN
  IF Failed(n) THEN n ELSE [n EXCEPT !.procstack = n.stacktop]

\* a push_gosub that leaves the head of the chain where it was
push_gosub_unlinked(m) ==
  PushControl(m, [itemtype |-> "STACK_GOSUB", addr |-> NIL,
                  lastcall |-> m.gosubstack, retaddr |-> m.current])

push_gosub(m) ==
  LET n == PushControl(m, [itemtype |-> "STACK_GOSUB", addr |-> NIL,
                           lastcall |-> m.gosubstack, retaddr |-> m.current]) IN
  IF Failed(n) THEN n ELSE [n EXCEPT !.gosubstack = n.stacktop]

push_while(m, expr) ==
  PushControl(m, [itemtype |-> "STACK_WHILE", addr |-> NIL,
                  whilexpr |-> expr, whileaddr |-> m.current])

push_repeat(m) ==
  PushControl(m, [itemtype |-> "STACK_REPEAT", addr |-> NIL,
                  repeataddr |-> m.current])

\* push_intfor, push_int64for and push_floatfor differ in the tag only
push_for(m, item, forvar, foraddr, limit, step, simple) ==
  PushControl(m, [itemtype |-> item, addr |-> NIL, simplefor |-> simple,
                  forvar |-> forvar, foraddr |-> foraddr,
                  limit |-> limit, step |-> step])

push_data(m, address) ==
  PushControl(m, [itemtype |-> "STACK_DATA", addr |-> NIL, address |-> address])

push_error(m, handler) ==
  PushControl(m, [itemtype |-> "STACK_ERROR", addr |-> NIL, handler |-> handler])

\* save_int, save_uint8, save_int64, save_float, save_string and save_array
save_local(m, details, value) ==
  PushControl(m, [itemtype |-> "STACK_LOCAL", addr |-> NIL,
                  savedetails |-> details, value |-> value])

\* save_retint, save_retuint8, save_retint64, save_retfloat, save_retstring
save_retparm(m, retdetails, details, value) ==
  PushControl(m, [itemtype |-> "STACK_RETPARM", addr |-> NIL,
                  retdetails |-> retdetails, savedetails |-> details,
                  value |-> value])

push_strtemp(m, stringlen, stringaddr) ==
  PushFrame(m, [itemtype |-> "STACK_STRTEMP",
                descriptor |-> Descriptor(stringlen, stringaddr)])

push_string(m, x) == PushFrame(m, [itemtype |-> "STACK_STRING", descriptor |-> x])

\* ALIGN rounds a size up to a multiple of eight bytes
ALIGN(size) == ((size + 7) \div 8) * 8

\* alloc_stackmem takes a block for a local array from the stack.  It gives
\* NIL and changes nothing when the block would not fit above the stack
\* limit; trapping that is left to the caller.
alloc_stackmem(m, size) ==
  LET base == m.stacktop - ALIGN(size)
      p == base - entrysize("STACK_LOCARRAY") IN
  IF p < m.stacklimit THEN [m |-> m, val |-> NIL]
  ELSE [m |-> [m EXCEPT !.stacktop = p,
                        !.stack = <<[itemtype |-> "STACK_LOCARRAY",
                                     arraysize |-> ALIGN(size)]>> \o m.stack],
        val |-> base]

\* define_array, getting the descriptor of a local array from the stack
alloc_descriptor(m, size) ==
  LET r == alloc_stackmem(m, size) IN
  IF r.val = NIL THEN error(r.m, "ERR_BADDIM") ELSE r.m

\* A field of the entry on top of the stack.  Read through the pointer of
\* another kind of entry it is whatever bytes lie there: a value that
\* nothing in the model looks at.
TopField(m, field) ==
  IF field \in DOMAIN Head(m.stack) THEN Head(m.stack)[field] ELSE "unspecified"

\* pop_string does not look at the tag
pop_string(m) ==
  [val |-> TopField(m, "descriptor"), m |-> PopFrame(m, entrysize("STACK_STRING"))]

\* pop_array and pop_arraytemp do not look at the tag either
pop_array(m) ==
  [val |-> TopField(m, "descriptor"), m |-> PopFrame(m, entrysize("STACK_INTARRAY"))]

pop_arraytemp(m) ==
  [val |-> TopField(m, "descriptor"), m |-> PopFrame(m, entrysize("STACK_IATEMP"))]

\* pop_proc, pop_fn and pop_gosub check the tag and unlink the block
PopCall(m, item, errnumber) ==
  IF GET_TOPITEM(m) # item THEN [val |-> Head(m.stack), m |-> error(m, errnumber)]
  ELSE [val |-> Head(m.stack),
        m |-> IF item = "STACK_GOSUB"
              THEN [PopFrame(m, entrysize(item)) EXCEPT
                      !.gosubstack = Head(m.stack).lastcall]
              ELSE [PopFrame(m, entrysize(item)) EXCEPT
                      !.procstack = Head(m.stack).lastcall]]

\* a pop_proc that reports a broken stack
pop_proc_broken(m) == PopCall(m, "STACK_PROC", "ERR_BROKEN")

pop_proc(m) == PopCall(m, "STACK_PROC", "ERR_ENDPROC")

pop_fn(m) == PopCall(m, "STACK_FN", "ERR_FNRETURN")

pop_gosub(m) == PopCall(m, "STACK_GOSUB", "ERR_RETURN")

\* pop_while, pop_repeat, pop_for, pop_data and pop_error just step over
\* the block
pop_while(m) == PopFrame(m, entrysize("STACK_WHILE"))

\* a pop_repeat that leaves the block where it is
pop_repeat_keep(m) == m

pop_repeat(m) == PopFrame(m, entrysize("STACK_REPEAT"))

pop_for(m) == PopFrame(m, entrysize("STACK_INTFOR"))

pop_data(m) ==
  [val |-> TopField(m, "address"), m |-> PopFrame(m, entrysize("STACK_DATA"))]

\* a pop_error that hands back the handler in force instead of the saved one
pop_error_inforce(m) ==
  [val |-> m.error_handler, m |-> PopFrame(m, entrysize("STACK_ERROR"))]

pop_error(m) ==
  [val |-> TopField(m, "handler"), m |-> PopFrame(m, entrysize("STACK_ERROR"))]

(***************************************************************************)
(* stack.c: restoring saved variables                                      *)
(***************************************************************************)
ArrayTypes ==
  {"VAR_INTARRAY", "VAR_INT64ARRAY", "VAR_UINT8ARRAY", "VAR_FLOATARRAY",
   "VAR_STRARRAY"}

\* The body of the loop of 'restore' for the STACK_LOCAL block p
RestoreLocal(m, p) ==
  LET t == p.savedetails.typeinfo
      a == p.savedetails.address IN
  CASE t \in {"VAR_INTWORD", "VAR_UINT8", "VAR_INTLONG", "VAR_FLOAT"} ->
         Assign(m, a, p.value)
    [] t = "VAR_STRINGDOL" -> Assign(free_string(m, Deref(m, a)), a, p.value)
    [] t = "VAR_INTBYTEPTR" -> Poke(m, a, p.value)
    [] t = "VAR_INTWORDPTR" -> store_integer(m, a, p.value)
    [] t = "VAR_FLOATPTR" -> store_float(m, a, p.value)
    [] t = "VAR_DOLSTRPTR" ->
         free_string(MemMove(m, a, StringBytes(m, p.value)), p.value)
    [] t \in ArrayTypes -> Assign(m, a, p.value)
    [] OTHER -> error(m, "ERR_BROKEN")

\* restore_retparm, first half: fetch the value of the formal and put the
\* saved value back.  Gives the state and the value fetched.
FetchRetparm(m, p) ==
  LET t == p.savedetails.typeinfo
      a == p.savedetails.address
      none == [vartype |-> "none", intvalue |-> 0, floatvalue |-> 0,
               stringvalue |-> nullstring] IN
  CASE t = "VAR_INTWORD" ->
         [m |-> Assign(m, a, p.value),
          val |-> [none EXCEPT !.vartype = "VAR_INTWORD", !.intvalue = Deref(m, a)]]
    [] t = "VAR_FLOAT" ->
         [m |-> Assign(m, a, p.value),
          val |-> [none EXCEPT !.vartype = "VAR_FLOAT", !.floatvalue = Deref(m, a)]]
    [] t = "VAR_STRINGDOL" ->
         [m |-> Assign(m, a, p.value),
          val |-> [none EXCEPT !.vartype = "VAR_STRINGDOL", !.stringvalue = Deref(m, a)]]
    [] t = "VAR_INTBYTEPTR" ->
         [m |-> Poke(m, a, p.value),
          val |-> [none EXCEPT !.vartype = "VAR_INTWORD", !.intvalue = Peek(m, a)]]
    [] t = "VAR_INTWORDPTR" ->
         [m |-> store_integer(m, a, p.value),
          val |-> [none EXCEPT !.vartype = "VAR_INTWORD", !.intvalue = get_integer(m, a)]]
    [] t = "VAR_FLOATPTR" ->
         [m |-> store_float(m, a, p.value),
          val |-> [none EXCEPT !.vartype = "VAR_FLOAT", !.floatvalue = get_float(m, a)]]
    [] t = "VAR_DOLSTRPTR" ->
         LET len == get_stringlen(m, a)
             bytes == MemBytes(m, a, len)
             copy == Descriptor(len, NewStringAddr(m, bytes)) IN
         [m |-> free_string(MemMove(alloc_string(m, bytes), a,
                                    StringBytes(m, p.value)), p.value),
          val |-> [none EXCEPT !.vartype = "VAR_DOLSTRPTR", !.intvalue = len,
                               !.stringvalue = copy]]
    [] t \in ArrayTypes -> [m |-> m, val |-> none]
    [] OTHER -> [m |-> error(m, "ERR_BROKEN"), val |-> none]

\* restore_retparm, second half: store the value fetched in the variable
\* named at the call
StoreRetparm(m, p, v) ==
  LET t == p.retdetails.typeinfo
      a == p.retdetails.address
      asint == IF v.vartype = "VAR_INTWORD" THEN v.intvalue
               ELSE TruncHalves(v.floatvalue)
      asfloat == IF v.vartype = "VAR_INTWORD" THEN TOFLOAT(v.intvalue)
                 ELSE v.floatvalue
      text == StringBytes(m, v.stringvalue) IN
  CASE t = "VAR_INTWORD" -> Assign(m, a, asint)
    [] t = "VAR_FLOAT" -> Assign(m, a, asfloat)
    [] t = "VAR_STRINGDOL" ->
         Assign(free_string(m, Deref(m, a)), a, v.stringvalue)
    [] t = "VAR_INTBYTEPTR" -> Poke(m, a, asint)
    [] t = "VAR_INTWORDPTR" -> store_integer(m, a, asint)
    [] t = "VAR_FLOATPTR" -> store_float(m, a, asfloat)
    [] t = "VAR_DOLSTRPTR" ->
         free_string(
           MemMove(m, a, IF v.vartype = "VAR_STRINGDOL"
                         THEN Append(text, asc_CR) ELSE text),
           v.stringvalue)
    [] t \in {"VAR_INTARRAY", "VAR_FLOATARRAY", "VAR_STRARRAY"} -> m
    [] OTHER -> error(m, "ERR_BROKEN")

RECURSIVE restore(_, _), restore_retparm(_, _)

restore_retparm(m, parmcount) ==
  With(m, LAMBDA x :
    With(FetchRetparm(PopFrame(x, entrysize("STACK_RETPARM")), Head(x.stack)),
         LAMBDA f :
      Then(IF Failed(f.m) \/ parmcount - 1 <= 0 THEN f.m
           ELSE IF GET_TOPITEM(f.m) = "STACK_LOCAL"
                THEN restore(f.m, parmcount - 1)
                ELSE restore_retparm(f.m, parmcount - 1),
           LAMBDA rest : StoreRetparm(rest, Head(x.stack), f.val))))

restore(m, parmcount) ==
  With(m, LAMBDA x :
    Then(RestoreLocal(PopFrame(x, entrysize("STACK_LOCAL")), Head(x.stack)),
         LAMBDA n :
      IF parmcount - 1 > 0 /\ GET_TOPITEM(n) = "STACK_LOCAL"
      THEN restore(n, parmcount - 1)
      ELSE IF parmcount - 1 > 0 /\ GET_TOPITEM(n) = "STACK_RETPARM"
           THEN restore_retparm(n, parmcount - 1)
      ELSE n))

\* dummyrestore steps over the blocks without restoring the variables
RECURSIVE dummyrestore(_, _)
dummyrestore(m, parmcount) ==
  With(PopFrame(m, entrysize("STACK_LOCAL")), LAMBDA n :
    IF parmcount - 1 > 0 /\ GET_TOPITEM(n) = "STACK_LOCAL"
         THEN dummyrestore(n, parmcount - 1)
    ELSE IF parmcount - 1 > 0 /\ GET_TOPITEM(n) = "STACK_RETPARM"
         THEN restore_retparm(n, parmcount - 1)
    ELSE n)

\* a restore_parameters that puts back the topmost parameter only
restore_parameters_one(m, parmcount) ==
  IF GET_TOPITEM(m) = "STACK_LOCAL" THEN restore(m, 1)
  ELSE restore_retparm(m, 1)

restore_parameters(m, parmcount) ==
  IF GET_TOPITEM(m) = "STACK_LOCAL" THEN restore(m, parmcount)
  ELSE restore_retparm(m, parmcount)

(***************************************************************************)
(* stack.c: init_stack and clear_stack                                     *)
(***************************************************************************)
himem == 4096

noerrorblock == [current |-> NIL, stacktop |-> NIL, islocal |-> FALSE]

\* init_stack puts the STACK_UNKNOWN sentinel at the top of memory
init_stack ==
  [stack |-> <<[itemtype |-> "STACK_UNKNOWN"]>>,
   stacktop |-> himem - entrysize("STACK_UNKNOWN"),
   stacklimit |-> 0,
   safestack |-> himem - entrysize("STACK_UNKNOWN"),
   procstack |-> NIL, gosubstack |-> NIL, current |-> 1,
   error_handler |-> noerrorblock, errorislocal |-> FALSE,
   datacur |-> NIL, varlists |-> <<>>, memory |-> <<>>,
   strheap |-> <<>>, arrays |-> <<>>, errnum |-> "none",
   program |-> <<>>, escape |-> FALSE, outofdata |-> FALSE,
   liblist |-> <<>>, installist |-> <<>>,
   lastsearch |-> 1, curcount |-> 0, savedcur |-> <<>>]

\* clear_stack throws everything above the sentinel away
clear_stack(m) ==
  [m EXCEPT !.stacktop = m.safestack,
            !.stack = <<m.stack[Len(m.stack)]>>,
            !.procstack = NIL, !.gosubstack = NIL]

(***************************************************************************)
(* stack.c: discarding entries                                             *)
(***************************************************************************)
\* a discard that restores local variables whatever it is asked
discard_restoring(m, item, restorevars) ==
  CASE item = "STACK_STRTEMP" -> free_string(pop_string(m).m, pop_string(m).val)
    [] item = "STACK_LOCAL" -> restore(m, 1)
    [] item = "STACK_RETPARM" -> restore_retparm(m, 1)
    [] item = "STACK_GOSUB" -> pop_gosub(m).m
    [] item = "STACK_PROC" -> pop_proc(m).m
    [] item = "STACK_FN" -> pop_fn(m).m
    [] item = "STACK_ERROR" -> [pop_error(m).m EXCEPT !.error_handler = pop_error(m).val]
    [] item = "STACK_DATA" -> [pop_data(m).m EXCEPT !.datacur = pop_data(m).val]
    [] OTHER -> PopFrame(m, entrysize(item))

discard(m, item, restorevars) ==
  CASE item = "STACK_STRTEMP" -> free_string(pop_string(m).m, pop_string(m).val)
    [] item = "STACK_LOCAL" ->
         IF restorevars THEN restore(m, 1) ELSE dummyrestore(m, 1)
    [] item = "STACK_RETPARM" -> restore_retparm(m, 1)
    [] item = "STACK_GOSUB" -> pop_gosub(m).m
    [] item = "STACK_PROC" -> pop_proc(m).m
    [] item = "STACK_FN" -> pop_fn(m).m
    [] item = "STACK_ERROR" -> [pop_error(m).m EXCEPT !.error_handler = pop_error(m).val]
    [] item = "STACK_DATA" -> [pop_data(m).m EXCEPT !.datacur = pop_data(m).val]
    [] item \in {"STACK_LOCARRAY", "STACK_LOCSTRING"} ->
         PopFrame(m, entrysize("STACK_LOCARRAY") + Head(m.stack).arraysize)
    [] item = "STACK_UNKNOWN" \/ ItemIndex(item) >= ItemIndex("STACK_HIGHEST") ->
         error(m, "ERR_BROKEN")
    [] OTHER -> PopFrame(m, entrysize(item))

\* no block found: the NIL a get_ function returns
NoBlock == [itemtype |-> "NIL"]

\* get_while, get_repeat and get_for: discard disposable entries from the top
\* of the stack until one of the wanted kinds is on top.  The result is the
\* state reached and the block found, or NIL.
RECURSIVE GetBlockLoop(_, _)
GetBlockLoop(m, wanted) ==
  IF disposable(GET_TOPITEM(m))
  THEN With(discard(m, GET_TOPITEM(m), TRUE), LAMBDA n :
         IF Failed(n) THEN [m |-> n, block |-> NoBlock]
         ELSE IF GET_TOPITEM(n) \in wanted
              THEN [m |-> n, block |-> Head(n.stack)]
         ELSE GetBlockLoop(n, wanted))
  ELSE [m |-> m, block |-> NoBlock]

get_while(m) == GetBlockLoop(m, {"STACK_WHILE"})

get_repeat(m) == GetBlockLoop(m, {"STACK_REPEAT"})

get_for(m) == GetBlockLoop(m, {"STACK_INTFOR", "STACK_FLOATFOR"})

\* empty_stack: discard entries until one of kind 'required' or the bottom
RECURSIVE empty_stack(_, _)
empty_stack(m, required) ==
  With(m, LAMBDA x :
    IF GET_TOPITEM(x) # "STACK_UNKNOWN" /\ GET_TOPITEM(x) # required /\ ~Failed(x)
    THEN empty_stack(discard(x, GET_TOPITEM(x), TRUE), required)
    ELSE x)

RECURSIVE stack_unwindlocal(_)
stack_unwindlocal(m) ==
  With(m, LAMBDA x :
    IF GET_TOPITEM(x) = "STACK_LOCAL" /\ ~Failed(x)
    THEN stack_unwindlocal(discard(x, "STACK_LOCAL", TRUE))
    ELSE x)

\* reset_stack: discard entries, without restoring local variables, as far
\* as 'newstacktop'
RECURSIVE ResetLoop(_, _)
ResetLoop(m, newstacktop) ==
  With(m, LAMBDA x :
    IF x.stacktop < newstacktop /\ ~Failed(x)
    THEN ResetLoop(discard(x, GET_TOPITEM(x), FALSE), newstacktop)
    ELSE x)

reset_stack(m, newstacktop) ==
  With(ResetLoop(m, newstacktop), LAMBDA n :
    IF Failed(n) THEN n
    ELSE IF n.stacktop # n.safestack /\ n.stacktop # newstacktop
    THEN error([n EXCEPT !.stacktop = n.safestack,
                        !.stack = <<n.stack[Len(n.stack)]>>], "ERR_BROKEN")
    ELSE n)

(***************************************************************************)
(* The statement dispatcher.  'program' is the tokenised program as a list *)
(* of statements; 'current' is the index of the statement to run next and  *)
(* NIL once the program has ended.  The value an expression() call leaves  *)
(* on the stack is an input of the statement that evaluates it.            *)
(***************************************************************************)
\* The statement about to run is in the body of a function: the loop that
\* dispatches it is exec_fnstatements, entered when the function was called
\* and left at its '='
InFnBody == \E i \in DOMAIN stack : stack[i].itemtype = "STACK_FN"

Running == errnum = "none" /\ current \in 1..Len(program)

\* exec_statements looks at the escape flag before it dispatches a
\* statement; exec_fnstatements does not
EscapeSeen == escape /\ ~InFnBody

AtToken(tokens) ==
  /\ Running
  /\ ~EscapeSeen
  /\ program[current].token \in tokens

TV(item, value) == [itemtype |-> item, value |-> value]

\* no expression, where one is optional
NoValue == TV("none", 0)

\* Skipping the tokens of a line to its end leaves the cursor at the first
\* statement of the line after
RECURSIVE NextLine(_, _)
NextLine(prog, at) ==
  IF at + 1 \in DOMAIN prog /\ prog[at + 1].lineno = prog[at].lineno
  THEN NextLine(prog, at + 1) ELSE at + 1

\* In a program of statements the DATA pointer is the place of a DATA
\* statement and the number of its fields that have been read: 0 at the DATA
\* token, and otherwise at the ',' or the end of line after that field.
DataStride == 8

DataAddress(line, field) == line * DataStride + field

DataLine(dp) == dp \div DataStride

DataField(dp) == dp % DataStride

\* the fields of a DATA statement: DATA with nothing after it has one field,
\* which is empty
DataItems(s) == IF "items" \in DOMAIN s THEN s.items ELSE <<NoValue>>

\* The first line at or after the line that starts at 'dest' whose first
\* token is DATA, or the end of the program
RECURSIVE FindData(_, _)
FindData(prog, dest) ==
  IF dest \in DOMAIN prog /\ prog[dest].token # "BASIC_TOKEN_DATA"
  THEN With(NextLine(prog, dest), LAMBDA n : FindData(prog, n))
  ELSE dest

\* What the run remembers of the statement just executed
Snapshot ==
  [stacktop |-> stacktop, stack |-> stack, procstack |-> procstack,
   gosubstack |-> gosubstack, varlists |-> varlists, memory |-> memory,
   strheap |-> strheap, error_handler |-> error_handler, program |-> program,
   errorislocal |-> errorislocal, arrays |-> arrays, datacur |-> datacur,
   outofdata |-> outofdata, curcount |-> curcount]

\* What the next READ of a value is given: the field it is read from, or no
\* field when the READ raises 'out of data'
NextRead(m) ==
  IF m.outofdata THEN [line |-> NIL, field |-> 0]
  ELSE IF m.datacur # NIL
          /\ DataField(m.datacur) < Len(DataItems(m.program[DataLine(m.datacur)]))
  THEN [line |-> DataLine(m.datacur), field |-> DataField(m.datacur) + 1]
  ELSE LET d == FindData(m.program,
                         IF m.datacur = NIL THEN 1
                         ELSE NextLine(m.program, DataLine(m.datacur))) IN
       IF d \in DOMAIN m.program THEN [line |-> d, field |-> 1]
       ELSE [line |-> NIL, field |-> 0]

\* The ERROR blocks a subprogram has on the stack: those above its return
\* block at 'frame' with no other return block in between
OwnErrors(s, frame) ==
  {i \in DOMAIN s :
     /\ s[i].itemtype = "STACK_ERROR"
     /\ s[i].addr < frame
     /\ \A j \in DOMAIN s :
          s[j].itemtype \in {"STACK_PROC", "STACK_FN"}
          => ~(s[i].addr < s[j].addr /\ s[j].addr < frame)}

\* A statement has run: the run remembers which, the state it started in,
\* for a call the stack pointer it started with (by return block), for
\* LOCAL DATA what the next READ was to be given (by DATA block), and for a
\* call the error handler in force (by return block), with whether ON ERROR
\* has since changed the handler while the subprogram had no ERROR block
StepInput(next, input) ==
  \E n \in {next} :
    /\ SetBasicvars(n)
    /\ obs' = [obs EXCEPT
                !.pc = current, !.pre = Snapshot, !.spat[current] = stacktop,
                !.caught = FALSE, !.input = input,
                !.callsp = IF n.procstack # NIL /\ n.procstack < stacktop
                           THEN [a \in DOMAIN @ \cup {n.procstack} |->
                                   IF a = n.procstack THEN stacktop ELSE @[a]]
                           ELSE @,
                !.entry = IF n.procstack # NIL /\ n.procstack < stacktop
                          THEN [a \in DOMAIN @ \cup {n.procstack} |->
                                  IF a = n.procstack
                                  THEN [handler |-> error_handler,
                                        changed |-> FALSE]
                                  ELSE @[a]]
                          ELSE IF /\ program[current].token = "BASIC_TOKEN_ON"
                                  /\ n.stacktop = stacktop
                                  /\ n.error_handler # error_handler
                          THEN [a \in DOMAIN @ |->
                                  IF OwnErrors(stack, a) = {}
                                  THEN [@[a] EXCEPT !.changed = TRUE] ELSE @[a]]
                          ELSE @,
                !.datasp = IF program[current].token = "BASIC_TOKEN_LOCAL"
                              /\ n.stacktop < stacktop
                              /\ GET_TOPITEM(n) = "STACK_DATA"
                           THEN [a \in DOMAIN @ \cup {n.stacktop} |->
                                   IF a = n.stacktop THEN NextRead(basicvars)
                                   ELSE @[a]]
                           ELSE @]

Step(n) == StepInput(n, [itemtype |-> "none", value |-> 0])

\* exec_statements: the escape flag is set, the error is raised and no
\* statement is dispatched
exec_statements ==
  /\ Running
  /\ EscapeSeen
  /\ SetBasicvars(escape_error(basicvars))
  /\ obs' = [obs EXCEPT !.pc = NIL, !.pre = Snapshot, !.caught = FALSE]

\* The Escape key is pressed while the program runs
PressEscape ==
  /\ Running
  /\ ~escape
  /\ escape' = TRUE
  /\ UNCHANGED <<stack, stacktop, stacklimit, safestack, procstack,
                 gosubstack, current, error_handler, errorislocal, datacur,
                 varlists, memory, strheap, arrays, errnum, program,
                 outofdata, liblist, installist, lastsearch, curcount,
                 savedcur, obs>>

\* expression() leaves a value on the stack: a number, the descriptor of a
\* string variable (value is its name), a temporary string (value is its
\* text), or the result that the function called in the expression has
\* already left there
PushValue(m, tv) ==
  CASE tv.itemtype = "STACK_INT" -> push_int(m, tv.value)
    [] tv.itemtype = "STACK_UINT8" -> push_uint8(m, tv.value)
    [] tv.itemtype = "STACK_INT64" -> push_int64(m, tv.value)
    [] tv.itemtype = "STACK_FLOAT" -> push_float(m, tv.value)
    [] tv.itemtype = "STACK_STRING" -> push_string(m, Deref(m, tv.value))
    [] tv.itemtype = "STACK_STRTEMP" ->
         push_strtemp(alloc_string(m, tv.value), Len(tv.value),
                      NewStringAddr(m, tv.value))
    [] tv.itemtype = "result" -> m

Conditions == {TV("STACK_INT", 0), TV("STACK_INT", -1), TV("STACK_FLOAT", 3)}

\* pop_anynum64 and pop_anynum32: any integer as it is, a float through
\* TOINT64 or TOINT
pop_anynum64(m) ==
  IF GET_TOPITEM(m) \in {"STACK_INT", "STACK_UINT8", "STACK_INT64"}
  THEN PopValue(m, GET_TOPITEM(m))
  ELSE IF GET_TOPITEM(m) = "STACK_FLOAT"
  THEN [val |-> TruncHalves(pop_float(m).val), m |-> pop_float(m).m]
  ELSE [val |-> 0, m |-> error(m, "ERR_TYPENUM")]

\* pop_anynumfp: any integer through TOFLOAT, a float as it is
pop_anynumfp(m) ==
  IF GET_TOPITEM(m) \in {"STACK_INT", "STACK_UINT8", "STACK_INT64"}
  THEN [val |-> TOFLOAT(PopValue(m, GET_TOPITEM(m)).val),
        m |-> PopValue(m, GET_TOPITEM(m)).m]
  ELSE IF GET_TOPITEM(m) = "STACK_FLOAT" THEN pop_float(m)
  ELSE [val |-> 0, m |-> error(m, "ERR_TYPENUM")]

Goto(m, dest) == [m EXCEPT !.current = dest]

(***************************************************************************)
(* mainstate.c: REPEAT, UNTIL, WHILE and ENDWHILE                          *)
(***************************************************************************)
exec_repeat ==
  /\ AtToken({"BASIC_TOKEN_REPEAT"})
  /\ Step(push_repeat(Goto(basicvars, current + 1)))

\* The block a loop terminator works with: the one on top of the stack or
\* the one its get_ function finds
FindBlock(m, kinds, getter(_)) ==
  IF GET_TOPITEM(m) \in kinds THEN [m |-> m, block |-> Head(m.stack)]
  ELSE getter(m)

do_until(m, result, pressed) ==
  With(FindBlock(m, {"STACK_REPEAT"}, get_repeat), LAMBDA f :
    IF Failed(f.m) THEN f.m
    ELSE IF f.block = NoBlock THEN error(f.m, "ERR_NOTREPEAT")
    ELSE IF kbd_escpoll(f.m, pressed) THEN escape_error(f.m)
    ELSE With(pop_anynum64(PushValue(Goto(f.m, m.current + 1), result)),
              LAMBDA r :
           IF Failed(r.m) THEN r.m
           ELSE IF r.val = 0 THEN Goto(r.m, f.block.repeataddr)
           ELSE pop_repeat(r.m)))

exec_until ==
  /\ AtToken({"BASIC_TOKEN_UNTIL"})
  /\ \E result \in Conditions, pressed \in BOOLEAN :
       Step(do_until(basicvars, result, pressed))

\* a search that counts a nested WHILE only while it is unresolved
RECURSIVE FindEndwhile_unresolved(_, _, _)
FindEndwhile_unresolved(prog, at, depth) ==
  IF at > Len(prog) THEN NIL
  ELSE IF prog[at].token = "BASIC_TOKEN_ENDWHILE"
       THEN IF depth = 1 THEN at + 1
            ELSE FindEndwhile_unresolved(prog, at + 1, depth - 1)
  ELSE IF prog[at].token = "BASIC_TOKEN_XWHILE"
       THEN FindEndwhile_unresolved(prog, at + 1, depth + 1)
  ELSE FindEndwhile_unresolved(prog, at + 1, depth)

\* The forward search of exec_while for the statement after the matching
\* ENDWHILE; NIL if the program ends first
RECURSIVE FindEndwhile(_, _, _)
FindEndwhile(prog, at, depth) ==
  IF at > Len(prog) THEN NIL
  ELSE IF prog[at].token = "BASIC_TOKEN_ENDWHILE"
       THEN IF depth = 1 THEN at + 1 ELSE FindEndwhile(prog, at + 1, depth - 1)
  ELSE IF prog[at].token \in {"BASIC_TOKEN_WHILE", "BASIC_TOKEN_XWHILE"}
       THEN FindEndwhile(prog, at + 1, depth + 1)
  ELSE FindEndwhile(prog, at + 1, depth)

do_while(m, result) ==
  With(pop_anynum64(PushValue(m, result)), LAMBDA r :
    IF Failed(r.m) THEN r.m
    ELSE IF r.val # 0 THEN push_while(Goto(r.m, m.current + 1), m.current)
    ELSE IF m.program[m.current].token = "BASIC_TOKEN_WHILE"
         THEN Goto(r.m, m.program[m.current].dest)
    ELSE With(FindEndwhile(m.program, m.current + 1, 1), LAMBDA dest :
           IF dest = NIL THEN error(r.m, "ERR_ENDWHILE")
           ELSE [Goto(r.m, dest) EXCEPT
                   !.program[m.current].token = "BASIC_TOKEN_WHILE",
                   !.program[m.current].dest = dest]))

exec_while ==
  /\ AtToken({"BASIC_TOKEN_WHILE", "BASIC_TOKEN_XWHILE"})
  /\ \E result \in Conditions : StepInput(do_while(basicvars, result), result)

do_endwhile(m, result, pressed) ==
  With(FindBlock(m, {"STACK_WHILE"}, get_while), LAMBDA f :
    IF Failed(f.m) THEN f.m
    ELSE IF f.block = NoBlock THEN error(f.m, "ERR_NOTWHILE")
    ELSE IF kbd_escpoll(f.m, pressed) THEN escape_error(f.m)
    ELSE With(pop_anynum64(PushValue(Goto(f.m, f.block.whilexpr), result)),
              LAMBDA r :
           IF Failed(r.m) THEN r.m
           ELSE IF r.val # 0 THEN Goto(r.m, f.block.whileaddr)
           ELSE Goto(pop_while(r.m), m.current + 1)))

exec_endwhile ==
  /\ AtToken({"BASIC_TOKEN_ENDWHILE"})
  /\ \E result \in Conditions, pressed \in BOOLEAN :
       Step(do_endwhile(basicvars, result, pressed))

(***************************************************************************)
(* mainstate.c: FOR and NEXT                                               *)
(***************************************************************************)
\* typeinfo & TYPEMASK: the type of the value behind a pointer
TypeMasked(typeinfo) ==
  CASE typeinfo = "VAR_INTWORDPTR" -> "VAR_INTWORD"
    [] typeinfo = "VAR_FLOATPTR" -> "VAR_FLOAT"
    [] typeinfo = "VAR_INTBYTEPTR" -> "VAR_INTBYTE"
    [] typeinfo = "VAR_DOLSTRPTR" -> "VAR_DOLSTRING"
    [] OTHER -> typeinfo

\* The value of an expression as an integer or as a float, after the type
\* of the variable it is for
PopNumber(m, tv, isinteger) ==
  IF isinteger THEN pop_anynum64(PushValue(m, tv)) ELSE pop_anynumfp(PushValue(m, tv))

\* a FOR that takes every step
SillyStep_never(step) == FALSE

\* 'if (intstep == 0) error(ERR_SILLY)' and the same for floatstep
SillyStep(step) == step = 0

\* exec_for: the statement carries the control variable and the values its
\* three expressions leave on the stack (step is NoValue without STEP)
do_for(m) ==
  LET s == m.program[m.current]
      t == s.forvar.typeinfo
      a == s.forvar.address
      isinteger == TypeMasked(t) \in {"VAR_INTWORD", "VAR_INTLONG", "VAR_UINT8"}
      t2 == IF t = "VAR_UINT8" THEN "VAR_INTWORD" ELSE t
      forvar == Lvalue(t2, a)
      \* store the initial value in the control variable
      Store(x, val) ==
        CASE t \in {"VAR_UINT8", "VAR_INTWORD", "VAR_INTLONG", "VAR_FLOAT"} ->
               Assign(x, a, val)
          [] t = "VAR_INTBYTEPTR" -> Poke(x, a, val)
          [] t = "VAR_INTWORDPTR" -> store_integer(x, a, val)
          [] t = "VAR_FLOATPTR" -> store_float(x, a, val)
          [] OTHER -> error(x, "ERR_BROKEN")
      \* set up the control block
      Push(body, limit, step) ==
        IF SillyStep(step) THEN error(body, "ERR_SILLY")
        ELSE IF ~isinteger
        THEN push_for(body, "STACK_FLOATFOR", forvar, body.current, limit,
                      step, FALSE)
        ELSE CASE t2 = "VAR_INTWORD" ->
                    push_for(body, "STACK_INTFOR", forvar, body.current, limit,
                             step, step = 1)
               [] t2 = "VAR_INTLONG" ->
                    push_for(body, "STACK_INT64FOR", forvar, body.current, limit,
                             step, FALSE)
               [] OTHER -> error(body, "ERR_BROKEN") IN
  IF t \in ArrayTypes THEN error(m, "ERR_VARNUM")
  ELSE IF TypeMasked(t) \notin {"VAR_INTWORD", "VAR_INTLONG", "VAR_UINT8", "VAR_FLOAT"}
       THEN error(m, "ERR_VARNUM")
  ELSE With(PopNumber(m, s.initial, t \notin {"VAR_FLOAT", "VAR_FLOATPTR"}),
            LAMBDA initial :
    IF Failed(initial.m) THEN initial.m
    ELSE With(PopNumber(Store(initial.m, initial.val), s.limit, isinteger),
              LAMBDA lim :
      IF Failed(lim.m) THEN lim.m
      ELSE IF s.step = NoValue
      THEN Push(Goto(lim.m, m.current + 1), lim.val,
                IF isinteger THEN 1 ELSE TOFLOAT(1))
      ELSE With(PopNumber(lim.m, s.step, isinteger), LAMBDA stp :
             IF Failed(stp.m) THEN stp.m
             ELSE Push(Goto(stp.m, m.current + 1), lim.val, stp.val))))

exec_for ==
  /\ AtToken({"BASIC_TOKEN_FOR"})
  /\ Step(do_for(basicvars))

ForBlocks == {"STACK_INTFOR", "STACK_INT64FOR", "STACK_FLOATFOR"}

find_for(m) ==
  With(FindBlock(m, ForBlocks, get_for), LAMBDA f :
    IF ~Failed(f.m) /\ f.block = NoBlock
    THEN [m |-> error(f.m, "ERR_NOTFOR"), block |-> NoBlock] ELSE f)

\* NEXT with a variable: pop FOR blocks until the one of that variable is on
\* top
RECURSIVE FindNextvar(_, _)
FindNextvar(f, nextvar) ==
  With(f, LAMBDA x :
    IF Failed(x.m) \/ x.block.forvar.address = nextvar.address THEN x
    ELSE FindNextvar(find_for(pop_for(x.m)), nextvar))

\* The sum of two int32 values overflows
Overflows32(a, b) ==
  \/ b > 0 /\ a > 2147483647 - b
  \/ b < 0 /\ a < (-2147483647 - 1) - b

\* The sum of two int32 values as the two's complement addition of the
\* machine gives it
Add32(a, b) ==
  IF b > 0 /\ a > 2147483647 - b
  THEN (a - 2147483647 - 1) + (b - 2147483647 - 1)
  ELSE IF b < 0 /\ a < (-2147483647 - 1) - b
  THEN (a + 2147483647 + 1) + (b + 2147483647 + 1)
  ELSE a + b

\* a NEXT that adds the step to the control variable twice over
BumpFor_twice(m, fp) ==
  LET a == fp.forvar.address
      step == IF fp.simplefor THEN 1 ELSE fp.step
      twice == IF fp.forvar.typeinfo = "VAR_INTWORD"
               THEN Add32(Add32(Deref(m, a), step), step)
               ELSE Deref(m, a) + 2 * step IN
  [m |-> Assign(m, a, twice), val |-> twice, overflow |-> FALSE]

\* Add the step to the control variable: the new state, the new value and
\* whether the addition overflowed.  The sum of two int32 values that
\* overflows is undefined: the value stored is the one the addition of the
\* machine gives, and the comparison that follows is left open (NextLoop).
BumpFor(m, fp) ==
  LET t == fp.forvar.typeinfo
      a == fp.forvar.address
      step == IF fp.simplefor THEN 1 ELSE fp.step IN
  CASE t = "VAR_INTWORD" ->
         [m |-> Assign(m, a, Add32(Deref(m, a), step)),
          val |-> Add32(Deref(m, a), step),
          overflow |-> Overflows32(Deref(m, a), step)]
    [] t \in {"VAR_INTLONG", "VAR_FLOAT"} ->
         [m |-> Assign(m, a, Deref(m, a) + step), val |-> Deref(m, a) + step,
          overflow |-> FALSE]
    [] t = "VAR_UINT8" ->
         [m |-> Assign(m, a, uint8cast(Deref(m, a) + step)),
          val |-> uint8cast(Deref(m, a) + step), overflow |-> FALSE]
    [] t = "VAR_INTBYTEPTR" ->
         [m |-> Poke(m, a, Peek(m, a) + step), val |-> Peek(m, a) + step,
          overflow |-> FALSE]
    [] t = "VAR_INTWORDPTR" ->
         [m |-> store_integer(m, a, get_integer(m, a) + step),
          val |-> get_integer(m, a) + step, overflow |-> FALSE]
    [] t = "VAR_FLOATPTR" ->
         [m |-> store_float(m, a, get_float(m, a) + step),
          val |-> get_float(m, a) + step, overflow |-> FALSE]
    [] OTHER -> [m |-> error(m, "ERR_BROKEN"), val |-> 0, overflow |-> FALSE]

\* One round of the loop of exec_next for the variables still to do.
\* 'contloop' is what the comparison gives after an addition that overflowed.
RECURSIVE NextLoop(_, _, _)
NextLoop(m, nextvars, contloop) ==
  With(IF nextvars = <<>> THEN find_for(m)
       ELSE FindNextvar(find_for(m), Head(nextvars)), LAMBDA f :
    IF Failed(f.m) THEN f.m
    ELSE With(BumpFor(f.m, f.block), LAMBDA b :
      IF Failed(b.m) THEN b.m
      ELSE IF IF b.overflow THEN contloop
              ELSE IF f.block.simplefor \/ f.block.step > 0
              THEN b.val <= f.block.limit ELSE b.val >= f.block.limit
           THEN Goto(b.m, f.block.foraddr)
      ELSE IF Len(nextvars) > 1
           THEN NextLoop(pop_for(b.m), Tail(nextvars), contloop)
      ELSE Goto(pop_for(b.m), m.current + 1)))

do_next(m, pressed, contloop) ==
  IF kbd_escpoll(m, pressed) THEN escape_error(m)
  ELSE NextLoop(m, m.program[m.current].nextvars, contloop)

\* A loop whose control variable has wrapped round goes on for some 2^32
\* rounds: the run is followed for MaxWrapped of them
MaxWrapped == 2

WrappedFar ==
  /\ Head(stack).itemtype = "STACK_INTFOR"
  /\ Head(stack).forvar.typeinfo = "VAR_INTWORD"
  /\ Deref(basicvars, Head(stack).forvar.address) < -2147483647 + 65536
  /\ Deref(basicvars, Head(stack).forvar.address)
       >= (-2147483647 - 1) + MaxWrapped * Head(stack).step

exec_next ==
  /\ AtToken({"BASIC_TOKEN_NEXT"})
  /\ ~WrappedFar
  /\ \E pressed \in BOOLEAN, contloop \in BOOLEAN :
       StepInput(do_next(basicvars, pressed, contloop),
                 [itemtype |-> "contloop", value |-> contloop])

(***************************************************************************)
(* mainstate.c: END                                                        *)
(***************************************************************************)
\* clear_error: no error handler
clear_error(m) == [m EXCEPT !.error_handler = noerrorblock]

\* exec_end calls end_run, which leaves the program
end_run(m) ==
  clear_error([m EXCEPT !.escape = FALSE, !.procstack = NIL,
                        !.gosubstack = NIL, !.current = NIL])

exec_end ==
  /\ AtToken({"BASIC_TOKEN_END"})
  /\ Step(end_run(basicvars))

(***************************************************************************)
(* mainstate.c: LOCAL                                                      *)
(***************************************************************************)
\* One round of the loop of def_locvar: save the variable 'locvar' on the
\* stack and give it its initial value
def_locvar(m, locvar) ==
  LET t == locvar.typeinfo
      a == locvar.address
      len == get_stringlen(m, a) + 1
      bytes == MemBytes(m, a, len)
      copy == Descriptor(len, NewStringAddr(m, bytes)) IN
  CASE t \in {"VAR_INTWORD", "VAR_UINT8", "VAR_INTLONG", "VAR_FLOAT"} ->
         Then(save_local(m, locvar, Deref(m, a)), LAMBDA x : Assign(x, a, 0))
    [] t = "VAR_STRINGDOL" ->
         Then(save_local(m, locvar, Deref(m, a)),
              LAMBDA x : Assign(x, a, nullstring))
    [] t = "VAR_INTBYTEPTR" ->
         Then(save_local(m, locvar, Peek(m, a)), LAMBDA x : Poke(x, a, 0))
    [] t = "VAR_INTWORDPTR" ->
         Then(save_local(m, locvar, get_integer(m, a)),
              LAMBDA x : store_integer(x, a, 0))
    [] t = "VAR_FLOATPTR" ->
         Then(save_local(m, locvar, get_float(m, a)),
              LAMBDA x : store_float(x, a, 0))
    [] t = "VAR_DOLSTRPTR" ->
         Then(save_local(alloc_string(m, bytes), locvar, copy),
              LAMBDA x : Poke(x, a, asc_CR))
    [] t \in {"VAR_INTARRAY", "VAR_UINT8ARRAY", "VAR_FLOATARRAY",
              "VAR_STRARRAY"} ->
         Then(save_local(m, locvar, Deref(m, a)), LAMBDA x : Assign(x, a, NIL))
    [] OTHER -> error(m, "ERR_BROKEN")

RECURSIVE DefLocvars(_, _)
DefLocvars(m, locvars) ==
  IF locvars = <<>> THEN m
  ELSE Then(m, LAMBDA x : DefLocvars(def_locvar(x, Head(locvars)), Tail(locvars)))

\* exec_local: LOCAL ERROR, LOCAL DATA or LOCAL <variables>
do_local(m) ==
  LET s == m.program[m.current]
      next == Goto(m, m.current + 1) IN
  CASE s.what = "BASIC_TOKEN_ERROR" ->
         Then(push_error(next, m.error_handler),
              LAMBDA x : [x EXCEPT !.errorislocal = TRUE])
    [] s.what = "BASIC_TOKEN_DATA" -> push_data(next, m.datacur)
    [] OTHER ->
         IF m.procstack = NIL THEN error(m, "ERR_LOCAL")
         ELSE DefLocvars(next, s.locvars)

exec_local ==
  /\ AtToken({"BASIC_TOKEN_LOCAL"})
  /\ Step(do_local(basicvars))

(***************************************************************************)
(* DIM.  A DIM statement carries its items: for each the name, the type    *)
(* that the last characters of the name give it, whether HIMEM precedes    *)
(* it, the value eval_integer gives for each bound of an array and, for a  *)
(* block of bytes, the size, the offset after '!' and whether LOCAL        *)
(* precedes the size.  The static variables are variables that always      *)
(* exist.  The heap (allocmem, malloc, realloc) is not part of the model:  *)
(* 'room' is the number of blocks it still has room for while an item is   *)
(* dealt with.                                                             *)
(***************************************************************************)
MAXDIMS == 10

\* basicvars.vartop, the address allocmem gives the next block
vartop == 2048

\* sizeof(basicarray): what a STACK_IATEMP block holds after its tag
basicarray_size == entrysize("STACK_IATEMP") - entrysize("STACK_UNKNOWN")

\* find_variable
find_variable(m, name) == name \in DOMAIN m.varlists

\* create_variable: the new variable is zero, the null string, or an array
\* without descriptor
create_variable(m, name, type) ==
  [m EXCEPT !.varlists =
     [n \in DOMAIN m.varlists \cup {name} |->
        IF n # name THEN m.varlists[n]
        ELSE IF type = "VAR_STRINGDOL" THEN nullstring
        ELSE IF type \in ArrayTypes THEN NIL
        ELSE 0]]

\* remove_variable unlinks the variable from its list
remove_variable(m, name) ==
  [m EXCEPT !.varlists = [n \in DOMAIN m.varlists \ {name} |-> m.varlists[n]]]

\* the element size define_array's switch finds, 0 for no array type
ElemSize(type) ==
  CASE type = "VAR_INTARRAY" -> 4
    [] type = "VAR_UINT8ARRAY" -> 1
    [] type \in {"VAR_INT64ARRAY", "VAR_FLOATARRAY"} -> 8
    [] type = "VAR_STRARRAY" -> 16
    [] OTHER -> 0

\* the number of elements of an array with these upper bounds
RECURSIVE ArrSize(_)
ArrSize(bounds) ==
  IF bounds = <<>> THEN 1 ELSE (Head(bounds) + 1) * ArrSize(Tail(bounds))

\* define_array: the bounds are checked in turn, the descriptor and the
\* elements are allocated, and the elements are set to zero or the null
\* string
define_array(m, it, islocal, room) ==
  LET size == ArrSize(it.bounds)
      negative == {i \in DOMAIN it.bounds : it.bounds[i] < 0}
      firstbad == IF negative = {} THEN Len(it.bounds) + 1
                  ELSE CHOOSE i \in negative : \A j \in negative : i <= j
      onstack == islocal /\ ~it.offheap
      ap == IF onstack THEN alloc_stackmem(m, basicarray_size)
            ELSE [m |-> m, val |-> IF room > 0 THEN vartop ELSE NIL]
      base == IF ~onstack
                THEN [m |-> ap.m, val |-> IF room > 1 THEN vartop ELSE NIL]
              ELSE IF it.type = "VAR_STRARRAY"
                THEN With(alloc_stackmem(ap.m, size * ElemSize(it.type)),
                          LAMBDA r :
                            IF r.val = NIL THEN r
                            ELSE [r EXCEPT !.m.stack[1].itemtype = "STACK_LOCSTRING"])
              ELSE alloc_stackmem(ap.m, size * ElemSize(it.type))
      descriptor == [dimcount |-> Len(it.bounds), arrsize |-> size,
                     offheap |-> it.offheap, parent |-> it.name,
                     dimsize |-> [i \in DOMAIN it.bounds |-> it.bounds[i] + 1],
                     elems |-> [i \in 1..size |->
                                  IF it.type = "VAR_STRARRAY" THEN nullstring
                                  ELSE 0]] IN
  IF it.type = "VAR_STRARRAY" /\ it.offheap THEN error(m, "ERR_NUMARRAY")
  ELSE IF ElemSize(it.type) = 0 THEN error(m, "ERR_BROKEN")
  ELSE IF firstbad <= Len(it.bounds) /\ firstbad <= MAXDIMS + 2
    THEN error(m, "ERR_NEGDIM")
  ELSE IF Len(it.bounds) > MAXDIMS + 1 THEN error(m, "ERR_DIMCOUNT")
  ELSE IF ap.val = NIL
    THEN error(IF islocal \/ it.offheap THEN m ELSE remove_variable(m, it.name),
               "ERR_BADDIM")
  ELSE IF base.val = NIL
    THEN error(IF islocal THEN base.m ELSE remove_variable(base.m, it.name),
               "ERR_BADDIM")
  ELSE [base.m EXCEPT !.arrays = Append(@, descriptor),
                      !.varlists[it.name] = Len(m.arrays) + 1]

\* define_byte_array: DIM <variable> <size>
define_byte_array(m, it, room) ==
  LET value == IF it.type = "VAR_FLOAT" THEN Deref(m, it.name) \div 2
               ELSE Deref(m, it.name)
      offset == IF it.indref THEN value + it.offset
                ELSE IF it.offheap THEN value ELSE 0
      onstack == alloc_stackmem(m, it.size + 1)
      ep == IF it.islocal THEN onstack
            ELSE IF it.offheap
              THEN [m |-> m, val |-> IF it.size = -1 \/ room = 0 THEN NIL
                                     ELSE vartop]
            ELSE [m |-> m, val |-> IF it.size = -1 \/ room > 0 THEN vartop
                                   ELSE NIL] IN
  IF it.type = "VAR_UINT8" THEN error(m, "ERR_UNSUITABLEVAR")
  ELSE IF it.type \notin {"VAR_INTWORD", "VAR_INTLONG", "VAR_FLOAT"}
    THEN error(m, "ERR_VARNUM")
  ELSE IF it.islocal /\ m.procstack = NIL THEN error(m, "ERR_LOCAL")
  ELSE IF it.size < -1 THEN error(m, "ERR_NEGBYTEDIM")
  ELSE IF ep.val = NIL /\ ~(it.offheap /\ ~it.islocal /\ it.size = -1)
    THEN error(ep.m, "ERR_BADBYTEDIM")
  ELSE IF it.indref THEN store_integer(ep.m, offset, ep.val)
  ELSE Assign(ep.m, it.name,
              IF it.type = "VAR_FLOAT" THEN 2 * ep.val ELSE ep.val)

\* an exec_dim that takes an array with a descriptor for a local array
DimItem_again(m, it, room) ==
  LET blockdef == it.type \notin ArrayTypes IN
  IF it.name = "" THEN error(m, "ERR_NAMEMISS")
  ELSE IF blockdef
    THEN IF find_variable(m, it.name) THEN define_byte_array(m, it, room)
         ELSE IF it.indref THEN error(m, "ERR_VARMISS")
         ELSE define_byte_array(create_variable(m, it.name, it.type), it, room)
  ELSE IF ~find_variable(m, it.name)
    THEN define_array(create_variable(m, it.name, it.type), it, FALSE, room)
  ELSE define_array(m, it, TRUE, room)

\* the body of exec_dim's loop for one item
DimItem(m, it, room) ==
  LET blockdef == it.type \notin ArrayTypes IN
  IF it.name = "" THEN error(m, "ERR_NAMEMISS")
  ELSE IF blockdef
    THEN IF find_variable(m, it.name) THEN define_byte_array(m, it, room)
         ELSE IF it.indref THEN error(m, "ERR_VARMISS")
         ELSE define_byte_array(create_variable(m, it.name, it.type), it, room)
  ELSE IF ~find_variable(m, it.name)
    THEN define_array(create_variable(m, it.name, it.type), it, FALSE, room)
  ELSE IF Deref(m, it.name) # NIL THEN error(m, "ERR_DUPLDIM")
  ELSE define_array(m, it, TRUE, room)

RECURSIVE DimItems(_, _, _, _)
DimItems(m, items, room, i) ==
  IF i > Len(items) THEN m
  ELSE Then(DimItem(m, items[i], room[i]),
            LAMBDA x : DimItems(x, items, room, i + 1))

\* exec_dim
do_dim(m, room) ==
  Then(DimItems(m, m.program[m.current].items, room, 1),
       LAMBDA x : Goto(x, m.current + 1))

\* the heap has room for the descriptor and the elements of an array, for
\* the descriptor only, or for nothing
HeapRoom == 0..2

exec_dim ==
  /\ AtToken({"BASIC_TOKEN_DIM"})
  /\ \E room \in [DOMAIN program[current].items -> HeapRoom] :
       Step(do_dim(basicvars, room))

(***************************************************************************)
(* Calls of procedures and functions.  A call names the PROC or FN, and    *)
(* carries its actual parameters: the value expression() gives for each,   *)
(* and the variable it names where the formal is a RETURN parameter.  A    *)
(* DEF carries the formal parameters.  The body of a DEF starts at the     *)
(* statement after it.                                                     *)
(***************************************************************************)
\* The first DEF of 'name' in the order of the program
FindDef(prog, name) ==
  LET defs == {i \in 1..Len(prog) :
                 prog[i].token = "BASIC_TOKEN_DEF" /\ prog[i].name = name} IN
  IF defs = {} THEN NIL ELSE CHOOSE i \in defs : \A j \in defs : i <= j

\* The stack of saved values of current has MAXCURCOUNT places; the places
\* below curcount are in use, and what lies above them is never read
MAXCURCOUNT == 3

\* save_current
save_current(m) ==
  IF m.curcount = MAXCURCOUNT THEN error(m, "ERR_OPSTACK")
  ELSE [m EXCEPT !.savedcur = Append(SubSeq(@, 1, m.curcount), m.current),
                 !.curcount = @ + 1]

\* restore_current
restore_current(m) ==
  [m EXCEPT !.curcount = @ - 1,
            !.current = m.savedcur[m.curcount],
            !.savedcur = SubSeq(@, 1, m.curcount - 1)]

\* The entries of the symbol table for a PROC or FN are kept under its name
\* (which starts with PROC or FN) in the order they have in the list of
\* varlists that the hash value of the name selects: the newest first.
NoFnproc == [varflags |-> "none", varmarker |-> NIL]

FnprocList(m, name) ==
  IF name \in DOMAIN m.varlists THEN m.varlists[name] ELSE <<>>

\* the search of find_fnproc through the list: the first entry of the name
FnprocEntry(m, name) ==
  IF FnprocList(m, name) = <<>> THEN NoFnproc ELSE Head(FnprocList(m, name))

\* mark_procfn: a marker for the DEF at 'pp' goes to the head of its list
mark_procfn(m, pp) ==
  LET name == m.program[pp].name
      vp == [varflags |-> "VAR_MARKER", varmarker |-> pp] IN
  [m EXCEPT !.varlists =
     [n \in DOMAIN m.varlists \cup {name} |->
        IF n = name THEN <<vp>> \o FnprocList(m, name) ELSE m.varlists[n]]]

\* scan_fnproc: from lastsearch, line by line, a marker is made for every
\* DEF met, up to the DEF of 'name' or to the end of the program.  (No
\* library is loaded in these programs.)
RECURSIVE ScanLines(_, _, _)
ScanLines(m, bp, name) ==
  IF bp > Len(m.program) THEN [m EXCEPT !.lastsearch = bp]
  ELSE IF m.program[bp].token # "BASIC_TOKEN_DEF"
       THEN With(NextLine(m.program, bp), LAMBDA n : ScanLines(m, n, name))
  ELSE IF m.program[bp].name = name
       THEN [mark_procfn(m, bp) EXCEPT !.lastsearch = NextLine(m.program, bp)]
  ELSE With(mark_procfn(m, bp), LAMBDA x :
         ScanLines(x, NextLine(m.program, bp), name))

scan_fnproc(m, name, fnproc) ==
  With(ScanLines(m, m.lastsearch, name), LAMBDA x :
    IF FnprocEntry(x, name) = NoFnproc
    THEN error(x, IF fnproc = "PROC" THEN "ERR_PROCMISS" ELSE "ERR_FNMISS")
    ELSE x)

\* scan_parmlist: the first entry of 'name', a marker, is filled in: the
\* parameters are those of its DEF, and its body is the statement after it
scan_parmlist(m, name, fnproc) ==
  LET vp == FnprocEntry(m, name)
      saved == save_current(m)
      at == Goto(saved, vp.varmarker)
      filled == [vp EXCEPT !.varflags = IF fnproc = "PROC" THEN "VAR_PROC"
                                        ELSE "VAR_FUNCTION"] IN
  IF Failed(saved) THEN saved
  ELSE IF vp.varmarker + 1 > Len(m.program) THEN error(at, "ERR_SYNTAX")
  ELSE restore_current([at EXCEPT !.varlists[name] = <<filled>> \o Tail(@)])

\* find_fnproc: the entry of 'name' that the list gives first; the program
\* is searched when the list has none, and a marker is filled in
find_fnproc(m, name, fnproc) ==
  LET vp == FnprocEntry(m, name) IN
  IF vp # NoFnproc /\ vp.varflags # "VAR_MARKER" THEN m
  ELSE Then(IF vp = NoFnproc THEN scan_fnproc(m, name, fnproc) ELSE m,
            LAMBDA x : IF FnprocEntry(x, name).varflags = "VAR_MARKER"
                       THEN scan_parmlist(x, name, fnproc) ELSE x)

\* The value of a variable as a save block keeps it; the text behind a '$'
\* pointer is copied to the heap first
SavedValue(m, lv) ==
  LET t == lv.typeinfo
      a == lv.address
      len == get_stringlen(m, a) + 1
      bytes == MemBytes(m, a, len) IN
  CASE t = "VAR_INTBYTEPTR" -> [m |-> m, val |-> Peek(m, a)]
    [] t = "VAR_INTWORDPTR" -> [m |-> m, val |-> get_integer(m, a)]
    [] t = "VAR_FLOATPTR" -> [m |-> m, val |-> get_float(m, a)]
    [] t = "VAR_DOLSTRPTR" ->
         [m |-> alloc_string(m, bytes),
          val |-> Descriptor(len, NewStringAddr(m, bytes))]
    [] OTHER -> [m |-> m, val |-> Deref(m, a)]

\* The value an actual parameter passes: what its expression left on the
\* stack, and for a RETURN parameter what the variable named holds
ActualValue(m, formal, actual) ==
  LET t == actual.lv.typeinfo
      a == actual.lv.address IN
  IF ~formal.isreturn THEN actual.tv
  ELSE CASE t = "VAR_INTWORD" -> TV("STACK_INT", Deref(m, a))
         [] t = "VAR_UINT8" -> TV("STACK_UINT8", Deref(m, a))
         [] t = "VAR_INTLONG" -> TV("STACK_INT64", Deref(m, a))
         [] t = "VAR_FLOAT" -> TV("STACK_FLOAT", Deref(m, a))
         [] t = "VAR_INTBYTEPTR" -> TV("STACK_INT", Peek(m, a))
         [] t = "VAR_INTWORDPTR" -> TV("STACK_INT", get_integer(m, a))
         [] t = "VAR_FLOATPTR" -> TV("STACK_FLOAT", get_float(m, a))
         [] t = "VAR_STRINGDOL" -> TV("STACK_STRING", a)
         [] OTHER -> TV("STACK_STRTEMP", MemBytes(m, a, get_stringlen(m, a)))

\* Give the formal parameter 'lv' the value 'tv'
AssignParameter(m, lv, tv) ==
  LET t == lv.typeinfo
      a == lv.address
      int == pop_anynum64(PushValue(m, tv))
      fp == pop_anynumfp(PushValue(m, tv))
      pushed == PushValue(m, tv)
      str == pop_string(pushed)
      text == StringBytes(str.m, str.val) IN
  CASE t \in {"VAR_INTWORD", "VAR_INTLONG"} ->
         Then(int.m, LAMBDA x : Assign(x, a, int.val))
    [] t = "VAR_UINT8" -> Then(int.m, LAMBDA x : Assign(x, a, uint8cast(int.val)))
    [] t = "VAR_FLOAT" -> Then(fp.m, LAMBDA x : Assign(x, a, fp.val))
    [] t = "VAR_INTBYTEPTR" -> Then(int.m, LAMBDA x : Poke(x, a, int.val))
    [] t = "VAR_INTWORDPTR" -> Then(int.m, LAMBDA x : store_integer(x, a, int.val))
    [] t = "VAR_FLOATPTR" -> Then(fp.m, LAMBDA x : store_float(x, a, fp.val))
    [] GET_TOPITEM(pushed) \notin {"STACK_STRING", "STACK_STRTEMP"} ->
         error(pushed, "ERR_TYPESTR")
    [] t = "VAR_STRINGDOL" /\ GET_TOPITEM(pushed) = "STACK_STRTEMP" ->
         Assign(str.m, a, str.val)
    [] t = "VAR_STRINGDOL" ->
         Assign(alloc_string(str.m, text), a,
                Descriptor(Len(text), NewStringAddr(str.m, text)))
    [] t = "VAR_DOLSTRPTR" ->
         IF GET_TOPITEM(pushed) = "STACK_STRTEMP"
         THEN free_string(MemMove(str.m, a, Append(text, asc_CR)), str.val)
         ELSE MemMove(str.m, a, Append(text, asc_CR))
    [] OTHER -> error(m, "ERR_BROKEN")

\* push_parameters: for each formal parameter, save the variable in a
\* STACK_LOCAL block, or a STACK_RETPARM block if it is a RETURN parameter,
\* and assign the actual parameter to it
RECURSIVE push_parameters(_, _, _)
push_parameters(m, formals, values) ==
  LET f == Head(formals)
      Bind(x) ==
        With(SavedValue(x, f.lv), LAMBDA s :
          Then(IF f.isreturn
               THEN save_retparm(s.m, Head(values).lv, f.lv, s.val)
               ELSE save_local(s.m, f.lv, s.val),
               LAMBDA y : AssignParameter(y, f.lv, Head(values).tv))) IN
  IF formals = <<>> /\ values = <<>> THEN m
  ELSE IF values = <<>> THEN error(m, "ERR_NOTENUFF")
  ELSE IF formals = <<>> THEN error(m, "ERR_TOOMANY")
  ELSE Then(m, LAMBDA x :
         push_parameters(Bind(x), Tail(formals), Tail(values)))

\* exec_endproc and exec_fnreturn: restore the local variables on top of the
\* stack, reinstate the error handler if one was saved next, and throw
\* away what else lies above the return block
UnwindTo(m, required) ==
  With(stack_unwindlocal(m), LAMBDA u :
    IF Failed(u) THEN u
    ELSE IF GET_TOPITEM(u) = "STACK_ERROR"
         THEN With(pop_error(u), LAMBDA e :
                empty_stack([e.m EXCEPT !.error_handler = e.val], required))
    ELSE empty_stack(u, required))

\* exec_proc: bind the parameters, push the return block and branch to the
\* body
do_proc(m, poll) ==
  LET s == m.program[m.current]
      dp == m.program[s.dest]
      values == [i \in DOMAIN s.actuals |->
                   [lv |-> s.actuals[i].lv,
                    tv |-> IF i \in DOMAIN dp.formals
                           THEN ActualValue(m, dp.formals[i], s.actuals[i])
                           ELSE s.actuals[i].tv]] IN
  IF poll THEN escape_error(m)
  ELSE
  Then(Then(IF s.actuals # <<>>
            THEN push_parameters(Goto(m, m.current + 1), dp.formals, values)
            ELSE Goto(m, m.current + 1),
            LAMBDA x : IF s.fnproc = "PROC"
                       THEN push_proc(x, s.name, Len(dp.formals))
                       ELSE push_fn(x, s.name, Len(dp.formals))),
       LAMBDA x : Goto(x, s.dest + 1))

\* exec_xproc: the first call from this place finds the DEF and fills in its
\* address
do_xproc(m, poll) ==
  LET s == m.program[m.current] IN
  With(find_fnproc(m, s.name, s.fnproc), LAMBDA f :
    LET d == FnprocEntry(f, s.name).varmarker
        found == [f EXCEPT !.program[m.current].token = "BASIC_TOKEN_FNPROCALL",
                           !.program[m.current].dest = d] IN
    IF Failed(f) THEN f
    ELSE IF s.actuals = <<>> /\ m.program[d].formals # <<>>
         THEN error(found, "ERR_NOTENUFF")
    ELSE IF s.actuals # <<>> /\ m.program[d].formals = <<>>
         THEN error(found, "ERR_TOOMANY")
    ELSE With(found, LAMBDA x : do_proc(x, poll)))

exec_proc ==
  /\ AtToken({"BASIC_TOKEN_FNPROCALL"})
  /\ program[current].fnproc = "PROC"
  /\ \E pressed \in BOOLEAN :
       Step(do_proc(basicvars, kbd_escpoll(basicvars, pressed)))

exec_xproc ==
  /\ AtToken({"BASIC_TOKEN_XFNPROCALL"})
  /\ program[current].fnproc = "PROC"
  /\ \E pressed \in BOOLEAN :
       Step(do_xproc(basicvars, kbd_escpoll(basicvars, pressed)))

\* A reference to a function in an expression calls it the same way, with a
\* STACK_FN block; the statement goes on at the return address with the
\* result on the stack
do_function ==
  /\ AtToken({"BASIC_TOKEN_FNPROCALL", "BASIC_TOKEN_XFNPROCALL"})
  /\ program[current].fnproc = "FN"
  /\ Step(IF program[current].token = "BASIC_TOKEN_XFNPROCALL"
          THEN do_xproc(basicvars, FALSE) ELSE do_proc(basicvars, FALSE))

\* exec_def: a DEF met in the flow of the program is skipped like a REM
exec_def ==
  /\ AtToken({"BASIC_TOKEN_DEF"})
  /\ Step(Goto(basicvars, NextLine(program, current)))

do_endproc(m) ==
  IF m.procstack = NIL
  THEN error([m EXCEPT !.errorislocal = FALSE], "ERR_ENDPROC")
  ELSE With(pop_proc(UnwindTo([m EXCEPT !.errorislocal = FALSE], "STACK_PROC")),
            LAMBDA returnblock :
         Then(IF ~Failed(returnblock.m) /\ returnblock.val.parmcount # 0
              THEN restore_parameters(returnblock.m, returnblock.val.parmcount)
              ELSE returnblock.m,
              LAMBDA x : Goto(x, returnblock.val.retaddr)))

exec_endproc ==
  /\ AtToken({"BASIC_TOKEN_ENDPROC"})
  /\ Step(do_endproc(basicvars))

\* exec_fnreturn: '=' and the expression whose value is the result
do_fnreturn(m0, result) ==
  LET m == [m0 EXCEPT !.errorislocal = FALSE]
      \* pop the result from the stack; a string is copied to a temporary
      Popped(pushed) ==
        LET resultype == GET_TOPITEM(pushed)
            str == pop_string(pushed)
            text == StringBytes(str.m, str.val) IN
        CASE resultype \in {"STACK_INT", "STACK_UINT8", "STACK_INT64",
                            "STACK_FLOAT"} ->
               [PopValue(pushed, resultype) EXCEPT
                  !.val = TV(resultype, PopValue(pushed, resultype).val)]
          [] resultype = "STACK_STRING" ->
               [m |-> alloc_string(str.m, text),
                val |-> TV("STACK_STRTEMP",
                           Descriptor(str.val.stringlen,
                                      NewStringAddr(str.m, text)))]
          [] resultype = "STACK_STRTEMP" ->
               [m |-> str.m, val |-> TV("STACK_STRTEMP", str.val)]
          [] OTHER -> [m |-> error(pushed, "ERR_VARNUMSTR"), val |-> NoValue]
      \* put the result back on the stack
      Again(r, tv) ==
        IF tv.itemtype = "STACK_STRTEMP"
        THEN push_strtemp(r, tv.value.stringlen, tv.value.stringaddr)
        ELSE PushValue(r, tv) IN
  IF m.procstack = NIL THEN error(m, "ERR_FNRETURN")
  ELSE With(Popped(PushValue(Goto(m, m.current + 1), result)), LAMBDA popped :
         IF Failed(popped.m) THEN popped.m
         ELSE With(pop_fn(UnwindTo(popped.m, "STACK_FN")), LAMBDA returnblock :
                Then(Then(IF ~Failed(returnblock.m) /\ returnblock.val.parmcount # 0
                          THEN restore_parameters(returnblock.m,
                                                  returnblock.val.parmcount)
                          ELSE returnblock.m,
                          LAMBDA x : Again(x, popped.val)),
                     LAMBDA x : Goto(x, returnblock.val.retaddr))))

\* The values the expression of '=' gives in the programs
FnResults ==
  <<TV("STACK_INT", 300), TV("STACK_UINT8", 255), TV("STACK_INT64", -70000),
    TV("STACK_FLOAT", 3), TV("STACK_STRING", "S$"), TV("STACK_STRTEMP", <<67>>)>>

exec_fnreturn ==
  /\ AtToken({"="})
  /\ \E i \in DOMAIN FnResults :
       StepInput(do_fnreturn(basicvars, FnResults[i]), FnResults[i])

(***************************************************************************)
(* mainstate.c: ON ERROR and ERROR, and the transfer to the handler        *)
(***************************************************************************)
\* set_error and set_local_error: the handler is the rest of the line, and
\* the stack pointer is noted for the reset
set_error(m, islocal) ==
  [m EXCEPT !.error_handler =
     [current |-> m.current, stacktop |-> m.stacktop, islocal |-> islocal]]

\* an ON ERROR that takes no notice of LOCAL ERROR
do_onerror_global(m) ==
  LET s == m.program[m.current]
      handler == Goto(m, m.current + 1)
      local == Then(push_error(handler, m.error_handler),
                    LAMBDA x : set_error(x, TRUE))
      skip(x) == Goto(x, NextLine(m.program, m.current)) IN
  CASE s.what = "BASIC_TOKEN_OFF" -> clear_error(handler)
    [] s.what = "BASIC_TOKEN_LOCAL" -> Then(local, skip)
    [] OTHER -> skip(set_error(handler, FALSE))

do_onerror(m) ==
  LET s == m.program[m.current]
      handler == Goto(m, m.current + 1)
      local == Then(push_error(handler, m.error_handler),
                    LAMBDA x : set_error(x, TRUE))
      skip(x) == Goto(x, NextLine(m.program, m.current)) IN
  CASE s.what = "BASIC_TOKEN_OFF" -> clear_error(handler)
    [] s.what = "BASIC_TOKEN_LOCAL" \/ m.errorislocal -> Then(local, skip)
    [] OTHER -> skip(set_error(handler, FALSE))

exec_onerror ==
  /\ AtToken({"BASIC_TOKEN_ON"})
  /\ Step(do_onerror(basicvars))

\* exec_error: ERROR <number>, <string>
do_error(m) ==
  LET s == m.program[m.current]
      errnumber == pop_anynum64(PushValue(Goto(m, m.current + 1), s.number))
      pushed == Then(errnumber.m, LAMBDA x : PushValue(x, s.text))
      stringtype == GET_TOPITEM(pushed)
      descriptor == pop_string(pushed)
      freed == IF stringtype = "STACK_STRTEMP"
               THEN free_string(descriptor.m, descriptor.val) ELSE descriptor.m IN
  IF Failed(pushed) THEN pushed
  ELSE IF stringtype \notin {"STACK_STRING", "STACK_STRTEMP"}
       THEN error(pushed, "ERR_TYPESTR")
  ELSE error(freed, "ERR_USER")

exec_error ==
  /\ AtToken({"BASIC_TOKEN_ERROR"})
  /\ Step(do_error(basicvars))

\* An error is trapped: the stack is reset to the pointer the handler was
\* installed with and the program goes on at the handler
handle_error ==
  /\ errnum # "none"
  /\ error_handler.current # NIL
  /\ SetBasicvars(Then(reset_stack([basicvars EXCEPT !.errnum = "none"],
                                   error_handler.stacktop),
                       LAMBDA x : Goto(x, error_handler.current)))
  /\ obs' = [obs EXCEPT !.pre = Snapshot, !.caught = TRUE]

(***************************************************************************)
(* mainstate.c: GOTO, GOSUB and RETURN.  The operand of GOTO and GOSUB is  *)
(* a line number token, BASIC_TOKEN_XLINENUM with the number until the     *)
(* first execution and BASIC_TOKEN_LINENUM with the address after it, or   *)
(* an expression.                                                          *)
(***************************************************************************)
MAXLINENO == 65279

\* find_line: from the start of the program, line by line, to the first
\* line whose number is not below 'lineno'; the end marker, one past the
\* last statement, has a number above every line number
RECURSIVE FindLineLoop(_, _, _)
FindLineLoop(prog, p, lineno) ==
  IF p \in DOMAIN prog /\ prog[p].lineno < lineno
  THEN With(NextLine(prog, p), LAMBDA n : FindLineLoop(prog, n, lineno))
  ELSE p

find_line(m, lineno) == FindLineLoop(m.program, 1, lineno)

\* get_lineno(dest) != line
LineMissing(m, dest, line) ==
  ~(dest \in DOMAIN m.program /\ m.program[dest].lineno = line)

\* a set_linedest that finds the line and leaves the token as it was
set_linedest_keep(m, tp) ==
  With(find_line(m, m.program[tp].line), LAMBDA dest :
    IF LineMissing(m, dest, m.program[tp].line)
    THEN [dest |-> dest, m |-> error(m, "ERR_LINEMISS")]
    ELSE [dest |-> dest, m |-> m])

\* a set_linedest that fills in the token before it looks at the line found
set_linedest_first(m, tp) ==
  With(find_line(m, m.program[tp].line), LAMBDA dest :
    With([m EXCEPT !.program[tp].ref = "BASIC_TOKEN_LINENUM",
                   !.program[tp].dest = dest], LAMBDA x :
      IF LineMissing(m, dest, m.program[tp].line)
      THEN [dest |-> dest, m |-> error(x, "ERR_LINEMISS")]
      ELSE [dest |-> dest, m |-> x]))

\* set_linedest: find the line, and store the address of its first
\* executable token in the token, which becomes BASIC_TOKEN_LINENUM
set_linedest(m, tp) ==
  With(find_line(m, m.program[tp].line), LAMBDA dest :
    IF LineMissing(m, dest, m.program[tp].line)
    THEN [dest |-> dest, m |-> error(m, "ERR_LINEMISS")]
    ELSE [dest |-> dest,
          m |-> [m EXCEPT !.program[tp].ref = "BASIC_TOKEN_LINENUM",
                          !.program[tp].dest = dest]])

\* The destination of GOTO and GOSUB, with the cursor moved past the operand
LineDest(m) ==
  LET s == m.program[m.current]
      Past(r) == [dest |-> r.dest,
                  m |-> IF Failed(r.m) THEN r.m ELSE Goto(r.m, m.current + 1)] IN
  CASE s.ref = "BASIC_TOKEN_LINENUM" -> Past([dest |-> s.dest, m |-> m])
    [] s.ref = "BASIC_TOKEN_XLINENUM" -> With(set_linedest(m, m.current), Past)
    [] OTHER ->
         With(pop_anynum64(PushValue(m, s.line)), LAMBDA line :
           IF Failed(line.m) THEN [dest |-> NIL, m |-> line.m]
           ELSE IF line.val < 0 \/ line.val > MAXLINENO
                THEN [dest |-> NIL, m |-> error(line.m, "ERR_LINENO")]
           ELSE With(find_line(line.m, line.val), LAMBDA dest :
                  IF LineMissing(line.m, dest, line.val)
                  THEN [dest |-> dest, m |-> error(line.m, "ERR_LINEMISS")]
                  ELSE Past([dest |-> dest, m |-> line.m])))

do_goto(m, pressed) ==
  IF kbd_escpoll(m, pressed) THEN escape_error(m)
  ELSE With(LineDest(m), LAMBDA r :
         IF Failed(r.m) THEN r.m ELSE Goto(r.m, r.dest))

do_gosub(m, pressed) ==
  IF kbd_escpoll(m, pressed) THEN escape_error(m)
  ELSE With(LineDest(m), LAMBDA r :
         IF Failed(r.m) THEN r.m
         ELSE Then(push_gosub(r.m), LAMBDA x : Goto(x, r.dest)))

\* kbd_escpoll: the Escape key may have been pressed
exec_goto ==
  /\ AtToken({"BASIC_TOKEN_GOTO"})
  /\ \E pressed \in BOOLEAN : Step(do_goto(basicvars, pressed))

exec_gosub ==
  /\ AtToken({"BASIC_TOKEN_GOSUB"})
  /\ \E pressed \in BOOLEAN : Step(do_gosub(basicvars, pressed))

\* an exec_return that wants the GOSUB block on top of the stack
do_return_top(m) ==
  With(Goto(m, m.current + 1), LAMBDA x :
    IF x.gosubstack = NIL THEN error(x, "ERR_RETURN")
    ELSE With(pop_gosub(x), LAMBDA r :
           IF Failed(r.m) THEN r.m ELSE Goto(r.m, r.val.retaddr)))

do_return(m) ==
  With(Goto(m, m.current + 1), LAMBDA x :
    IF x.gosubstack = NIL THEN error(x, "ERR_RETURN")
    ELSE With(IF GET_TOPITEM(x) # "STACK_GOSUB"
              THEN empty_stack(x, "STACK_GOSUB") ELSE x, LAMBDA e :
           IF Failed(e) THEN e
           ELSE With(pop_gosub(e), LAMBDA r :
                  IF Failed(r.m) THEN r.m ELSE Goto(r.m, r.val.retaddr))))

exec_return ==
  /\ AtToken({"BASIC_TOKEN_RETURN"})
  /\ Step(do_return(basicvars))

\* RESTORE +<n>: n - 1 lines on from the line after this one
RECURSIVE SkipLines(_, _, _)
SkipLines(prog, p, line) ==
  IF p \in DOMAIN prog /\ line > 0
  THEN With(NextLine(prog, p), LAMBDA n : SkipLines(prog, n, line - 1))
  ELSE p

\* restore_dataptr: RESTORE, RESTORE <line> and RESTORE +<offset>.  The
\* operand is a line number token, or the value eval_integer gives.
restore_dataptr(m) ==
  LET s == m.program[m.current]
      prog == m.program
      start == [m EXCEPT !.outofdata = FALSE]
      SetData(x, dest) ==
        With(FindData(x.program, dest), LAMBDA d :
          IF d \in DOMAIN x.program
          THEN Goto([x EXCEPT !.datacur = DataAddress(d, 0)], m.current + 1)
          ELSE Goto([x EXCEPT !.outofdata = TRUE], m.current + 1)) IN
  CASE s.what = "linenum" /\ s.ref = "BASIC_TOKEN_XLINENUM" ->
         With(set_linedest(start, m.current), LAMBDA r :
           IF Failed(r.m) THEN r.m ELSE SetData(r.m, r.dest))
    [] s.what = "linenum" /\ s.ref = "BASIC_TOKEN_LINENUM" ->
         SetData(start, s.dest)
    [] s.what = "+" ->
         With(SkipLines(prog, NextLine(prog, m.current), s.line - 1), LAMBDA q :
           IF q \notin DOMAIN prog
           THEN Goto([start EXCEPT !.outofdata = TRUE], m.current + 1)
           ELSE SetData(start, q))
    [] s.what = "none" -> SetData(start, 1)
    [] OTHER ->
         With(find_line(start, s.line), LAMBDA dest :
           IF LineMissing(start, dest, s.line)
           THEN error(Goto(start, m.current + 1), "ERR_LINEMISS")
           ELSE SetData(start, dest))

\* exec_restore: RESTORE ERROR, RESTORE LOCAL, RESTORE DATA and the RESTORE
\* that moves the DATA pointer
do_restore(m) ==
  LET s == m.program[m.current]
      next == Goto(m, m.current + 1) IN
  CASE s.what = "BASIC_TOKEN_ERROR" ->
         IF GET_TOPITEM(next) # "STACK_ERROR" THEN error(next, "ERR_ERRNOTOP")
         ELSE With(pop_error(next), LAMBDA e :
                [e.m EXCEPT !.error_handler = e.val])
    [] s.what = "BASIC_TOKEN_LOCAL" ->
         IF m.procstack = NIL THEN error(next, "ERR_LOCAL")
         ELSE With(stack_unwindlocal(next), LAMBDA u :
                IF Failed(u) THEN u
                ELSE With(IF GET_TOPITEM(u) = "STACK_ERROR"
                          THEN With(pop_error(u), LAMBDA e :
                                 [e.m EXCEPT !.error_handler = e.val])
                          ELSE u,
                          LAMBDA x :
                            IF GET_TOPITEM(x) # "STACK_PROC"
                            THEN empty_stack(x, "STACK_PROC") ELSE x))
    [] s.what = "BASIC_TOKEN_DATA" ->
         IF GET_TOPITEM(next) # "STACK_DATA" THEN error(next, "ERR_DATANOTOP")
         ELSE With(pop_data(next), LAMBDA e : [e.m EXCEPT !.datacur = e.val])
    [] OTHER -> restore_dataptr(m)

exec_restore ==
  /\ AtToken({"BASIC_TOKEN_RESTORE"})
  /\ Step(do_restore(basicvars))

(***************************************************************************)
(* mainstate.c: CASE, WHEN, OTHERWISE and ENDCASE.  The CASE token is      *)
(* BASIC_TOKEN_XCASE until the statement is first executed; exec_xcase     *)
(* then goes through the lines after it, builds the table of its WHENs and *)
(* turns the token into BASIC_TOKEN_CASE, which refers to the table.       *)
(***************************************************************************)
MAXWHENS == 500

IntItems == {"STACK_INT", "STACK_UINT8", "STACK_INT64"}

StringItems == {"STACK_STRING", "STACK_STRTEMP"}

WhenTokens == {"BASIC_TOKEN_XWHEN", "BASIC_TOKEN_WHEN"}

OtherwiseTokens == {"BASIC_TOKEN_XOTHERWISE", "BASIC_TOKEN_OTHERWISE"}

NoTable == [whentable |-> <<>>, defaultaddr |-> NIL]

\* a comparison that takes two integers for equal only when they are of the
\* same type, too
CaseCompare_typed(m, casetype, casevalue) ==
  LET whentype == GET_TOPITEM(m)
      Found(r) ==
        [found |-> ~Failed(r.m) /\ whentype = casetype /\ r.val = casevalue,
         m |-> r.m]
      FoundFloat(r) == [found |-> r.val = TOFLOAT(casevalue), m |-> r.m]
      FoundString(r) ==
        [found |-> StringBytes(m, r.val) = StringBytes(m, casevalue),
         m |-> IF whentype = "STACK_STRTEMP" THEN free_string(r.m, r.val)
               ELSE r.m] IN
  CASE casetype \in IntItems ->
         IF whentype \in IntItems THEN With(PopValue(m, whentype), Found)
         ELSE IF whentype = "STACK_FLOAT" THEN With(pop_float(m), FoundFloat)
         ELSE [found |-> FALSE, m |-> error(m, "ERR_TYPENUM")]
    [] casetype = "STACK_FLOAT" -> With(pop_anynumfp(m), Found)
    [] OTHER ->
         IF whentype \notin StringItems
         THEN [found |-> FALSE, m |-> error(m, "ERR_TYPESTR")]
         ELSE With(pop_string(m), FoundString)

\* One value of a WHEN, on top of the stack, against the value of the CASE
\* expression, by the type of the CASE expression and then of the WHEN's
CaseCompare(m, casetype, casevalue) ==
  LET whentype == GET_TOPITEM(m)
      Found(r) == [found |-> ~Failed(r.m) /\ r.val = casevalue, m |-> r.m]
      FoundFloat(r) == [found |-> r.val = TOFLOAT(casevalue), m |-> r.m]
      FoundString(r) ==
        [found |-> StringBytes(m, r.val) = StringBytes(m, casevalue),
         m |-> IF whentype = "STACK_STRTEMP" THEN free_string(r.m, r.val)
               ELSE r.m] IN
  CASE casetype \in IntItems ->
         IF whentype \in IntItems THEN With(PopValue(m, whentype), Found)
         ELSE IF whentype = "STACK_FLOAT" THEN With(pop_float(m), FoundFloat)
         ELSE [found |-> FALSE, m |-> error(m, "ERR_TYPENUM")]
    [] casetype = "STACK_FLOAT" -> With(pop_anynumfp(m), Found)
    [] OTHER ->
         IF whentype \notin StringItems
         THEN [found |-> FALSE, m |-> error(m, "ERR_TYPESTR")]
         ELSE With(pop_string(m), FoundString)

\* The search of the table: the WHENs in turn, and the values of each in
\* turn, until one matches
RECURSIVE WhenLoop(_, _, _, _, _, _)
WhenLoop(m, cp, casetype, casevalue, n, i) ==
  IF n > Len(cp.whentable) THEN [found |-> FALSE, n |-> n, m |-> m]
  ELSE With(PushValue(Goto(m, cp.whentable[n].whenexpr),
                      m.program[cp.whentable[n].whenexpr].values[i]),
            LAMBDA pushed :
    IF Failed(pushed) THEN [found |-> FALSE, n |-> n, m |-> pushed]
    ELSE With(CaseCompare(pushed, casetype, casevalue), LAMBDA r :
      IF Failed(r.m) \/ r.found THEN [found |-> r.found, n |-> n, m |-> r.m]
      ELSE IF i = Len(m.program[cp.whentable[n].whenexpr].values)
           THEN WhenLoop(r.m, cp, casetype, casevalue, n + 1, 1)
      ELSE WhenLoop(r.m, cp, casetype, casevalue, n, i + 1)))

\* exec_case: evaluate the CASE expression and branch to the statements of
\* the first WHEN with a value equal to it, or to the default address
do_case(m, selector) ==
  LET cp == m.program[m.current].table
      Branch(w, x) ==
        Goto(x, IF w.found THEN cp.whentable[w.n].whenaddr ELSE cp.defaultaddr)
  IN
  With(PushValue(Goto(m, m.current + 1), selector), LAMBDA pushed :
    IF Failed(pushed) THEN pushed
    ELSE IF GET_TOPITEM(pushed) \notin IntItems \cup StringItems \cup {"STACK_FLOAT"}
         THEN error(pushed, "ERR_VARNUMSTR")
    ELSE With(IF GET_TOPITEM(pushed) \in StringItems THEN pop_string(pushed)
              ELSE PopValue(pushed, GET_TOPITEM(pushed)), LAMBDA c :
      With(WhenLoop(c.m, cp, GET_TOPITEM(pushed), c.val, 1, 1), LAMBDA w :
        IF Failed(w.m) THEN w.m
        ELSE IF GET_TOPITEM(pushed) = "STACK_STRTEMP"
             THEN Branch(w, free_string(w.m, c.val))
        ELSE Branch(w, w.m))))

\* exec_xcase looks at the first token of each line after the CASE: 'c' is
\* how far it has got (the line, the depth of nesting, the table so far)
CaseLine(prog, c) ==
  LET tp == c.lp IN
  CASE prog[tp].token \in WhenTokens /\ c.depth = 1 ->
         IF Len(c.whentable) = MAXWHENS THEN [c EXCEPT !.err = "ERR_WHENCOUNT"]
         ELSE [c EXCEPT !.whentable =
                 Append(@, [whenexpr |-> tp, whenaddr |-> tp + 1])]
    [] prog[tp].token \in OtherwiseTokens /\ c.depth = 1 ->
         IF tp + 1 > Len(prog) THEN [c EXCEPT !.err = "ERR_ENDCASE"]
         ELSE [c EXCEPT !.defaultaddr = tp + 1]
    [] prog[tp].token = "BASIC_TOKEN_ENDCASE" ->
         [c EXCEPT !.depth = @ - 1,
                   !.defaultaddr = IF c.depth = 1 /\ @ = NIL THEN tp + 1 ELSE @]
    [] OTHER -> c

\* a line with one of 'casetokens' in it
CaseOnLine(prog, lp, casetokens) ==
  \E i \in lp..(NextLine(prog, lp) - 1) : prog[i].token \in casetokens

RECURSIVE CaseScan(_, _)
CaseScan(prog, c) ==
  IF c.lp > Len(prog) THEN [c EXCEPT !.err = "ERR_ENDCASE"]
  ELSE With(CaseLine(prog, c), LAMBDA d :
         IF d.err # "none" \/ d.depth = 0 THEN d
         ELSE With([d EXCEPT
                      !.depth = IF CaseOnLine(prog, c.lp, {"BASIC_TOKEN_XCASE"})
                                THEN @ + 1 ELSE @,
                      !.lp = NextLine(prog, c.lp)],
                   LAMBDA n : CaseScan(prog, n)))

do_xcase(m, selector) ==
  IF ~m.program[m.current].of THEN error(m, "ERR_OFMISS")
  ELSE With(CaseScan(m.program,
                     [lp |-> NextLine(m.program, m.current), depth |-> 1,
                      whentable |-> <<>>, defaultaddr |-> NIL, err |-> "none"]),
            LAMBDA c :
         IF c.err # "none" THEN error(m, c.err)
         ELSE do_case([m EXCEPT
                         !.program[m.current].token = "BASIC_TOKEN_CASE",
                         !.program[m.current].table =
                           [whentable |-> c.whentable,
                            defaultaddr |-> c.defaultaddr]], selector))

\* the values a CASE expression takes
CaseValues ==
  <<TV("STACK_INT", 1), TV("STACK_INT", 3), TV("STACK_FLOAT", 4),
    TV("STACK_UINT8", 7), TV("STACK_INT64", 3), TV("STACK_STRING", "S$"),
    TV("STACK_STRTEMP", <<68>>)>>

exec_xcase ==
  /\ AtToken({"BASIC_TOKEN_XCASE"})
  /\ \E v \in DOMAIN CaseValues :
       StepInput(do_xcase(basicvars, CaseValues[v]), CaseValues[v])

exec_case ==
  /\ AtToken({"BASIC_TOKEN_CASE"})
  /\ \E v \in DOMAIN CaseValues :
       StepInput(do_case(basicvars, CaseValues[v]), CaseValues[v])

\* exec_elsewhen: branch to the address after the token
do_elsewhen(m) == Goto(m, m.program[m.current].dest)

\* exec_xwhen: a WHEN or OTHERWISE met at the end of the statements of the
\* WHEN before it.  The search is for the ENDCASE of the CASE statement.
RECURSIVE EndcaseScan(_, _, _)
EndcaseScan(prog, lp, depth) ==
  IF lp > Len(prog) THEN NIL
  ELSE IF prog[lp].token = "BASIC_TOKEN_ENDCASE"
       THEN IF depth = 1 THEN lp
            ELSE With(NextLine(prog, lp), LAMBDA n :
                   EndcaseScan(prog, n, depth - 1))
  ELSE With(NextLine(prog, lp), LAMBDA n :
         EndcaseScan(prog, n,
                     IF CaseOnLine(prog, lp, {"BASIC_TOKEN_XCASE", "BASIC_TOKEN_CASE"})
                     THEN depth + 1 ELSE depth))

do_xwhen(m) ==
  With(EndcaseScan(m.program, NextLine(m.program, m.current), 1), LAMBDA lp2 :
    IF lp2 = NIL THEN error(m, "ERR_ENDCASE")
    ELSE do_elsewhen([m EXCEPT !.program[m.current].dest = lp2 + 1]))

exec_xwhen ==
  /\ AtToken({"BASIC_TOKEN_XWHEN", "BASIC_TOKEN_XOTHERWISE"})
  /\ Step(do_xwhen(basicvars))

\* exec_endifcase: an ENDCASE or ENDIF met in the flow of the program does
\* nothing
exec_endifcase ==
  /\ AtToken({"BASIC_TOKEN_ENDCASE", "BASIC_TOKEN_ENDIF"})
  /\ Step(Goto(basicvars, current + 1))

(***************************************************************************)
(* mainstate.c: IF.  An IF statement carries the addresses of its THEN and *)
(* ELSE parts, filled in by exec_xif the first time it runs.  'block' says *)
(* that THEN is the last token of the line.  The programs have no line     *)
(* second IF on the line of an IF.                                         *)
(***************************************************************************)
IfTokens == {"BASIC_TOKEN_XIF", "BASIC_TOKEN_BLOCKIF", "BASIC_TOKEN_SINGLIF"}

\* start_blockif: a THEN is the last token of the line
start_blockif(prog, tp) ==
  \E i \in tp..(NextLine(prog, tp) - 1) :
    prog[i].token \in IfTokens /\ prog[i].block

\* exec_xif for a block IF: the search for the ELSE or ENDIF of the IF over
\* the first tokens of the lines after it.  The result is the address of
\* the ELSE part, or NIL when the end is reached with the condition false.
RECURSIVE IfScan(_, _, _, _)
IfScan(prog, lp, depth, result) ==
  IF lp > Len(prog) THEN (IF result = 0 THEN NIL ELSE lp)
  ELSE With(CASE prog[lp].token = "BASIC_TOKEN_ENDIF" -> depth - 1
              [] prog[lp].token = "BASIC_TOKEN_XLHELSE" ->
                   IF depth = 1 THEN 0 ELSE depth
              [] OTHER -> IF start_blockif(prog, lp) THEN depth + 1 ELSE depth,
            LAMBDA d :
         IF d > 0
         THEN With(NextLine(prog, lp), LAMBDA n : IfScan(prog, n, d, result))
         ELSE lp + 1)

\* exec_xif for a single line IF: the token after the ELSE of the line, or
\* the next line
SingleElse(prog, at) ==
  IF \E i \in (at + 1)..(NextLine(prog, at) - 1) :
       prog[i].token = "BASIC_TOKEN_XELSE"
  THEN 1 + CHOOSE i \in (at + 1)..(NextLine(prog, at) - 1) :
             /\ prog[i].token = "BASIC_TOKEN_XELSE"
             /\ \A j \in (at + 1)..(i - 1) : prog[j].token # "BASIC_TOKEN_XELSE"
  ELSE NextLine(prog, at)

\* Branch to the THEN or the ELSE code
IfBranch(m, result) ==
  Goto(m, IF result # 0 THEN m.program[m.current].thendest
          ELSE m.program[m.current].elsedest)

\* The same for a single line IF: a line number after THEN or ELSE is the
\* line to go to
SingleBranch(m, result) ==
  With(IfBranch(m, result), LAMBDA b :
    IF b.current \in DOMAIN b.program /\ b.program[b.current].token = "linenum"
    THEN IF b.program[b.current].ref = "BASIC_TOKEN_XLINENUM"
         THEN With(set_linedest(b, b.current), LAMBDA r :
                IF Failed(r.m) THEN r.m ELSE Goto(r.m, r.dest))
         ELSE Goto(b, b.program[b.current].dest)
    ELSE b)

\* exec_xif: find out which kind of IF this is, fill in the two addresses
\* and carry the statement out
do_xif(m, cond) ==
  LET at == m.current
      prog == m.program
      Resolved(x, token, thendest, elsedest) ==
        [x EXCEPT !.program[at].token = token,
                  !.program[at].thendest = thendest,
                  !.program[at].elsedest = elsedest] IN
  With(pop_anynum64(PushValue(m, cond)), LAMBDA result :
    IF Failed(result.m) THEN result.m
    ELSE IF ~prog[at].block
    THEN IF at + 1 < NextLine(prog, at) /\ prog[at + 1].token = "BASIC_TOKEN_XELSE"
         THEN SingleBranch(Resolved(result.m, "BASIC_TOKEN_SINGLIF",
                                    NextLine(prog, at), at + 2), result.val)
         ELSE SingleBranch(Resolved(result.m, "BASIC_TOKEN_SINGLIF", at + 1,
                                    SingleElse(prog, at)), result.val)
    ELSE With(IfScan(prog, NextLine(prog, at), 1, result.val), LAMBDA lp2 :
           IF lp2 = NIL
           THEN error([result.m EXCEPT
                         !.program[at].token = "BASIC_TOKEN_BLOCKIF",
                         !.program[at].thendest = NextLine(prog, at)],
                      "ERR_ENDIF")
           ELSE IfBranch(Resolved(result.m, "BASIC_TOKEN_BLOCKIF",
                                  NextLine(prog, at), lp2), result.val)))

\* exec_blockif: the addresses are known
do_blockif(m, cond) ==
  With(pop_anynum64(PushValue(m, cond)), LAMBDA result :
    IF Failed(result.m) THEN result.m ELSE IfBranch(result.m, result.val))

\* exec_singlif: the same, and a line number in place of the THEN or the
\* ELSE code is branched to
do_singlif(m, cond) ==
  With(pop_anynum64(PushValue(m, cond)), LAMBDA result :
    IF Failed(result.m) THEN result.m ELSE SingleBranch(result.m, result.val))

exec_xif ==
  /\ AtToken({"BASIC_TOKEN_XIF"})
  /\ \E c \in Conditions : StepInput(do_xif(basicvars, c), c)

exec_blockif ==
  /\ AtToken({"BASIC_TOKEN_BLOCKIF"})
  /\ \E c \in Conditions : StepInput(do_blockif(basicvars, c), c)

exec_singlif ==
  /\ AtToken({"BASIC_TOKEN_SINGLIF"})
  /\ \E c \in Conditions : StepInput(do_singlif(basicvars, c), c)

\* exec_xelse: the ELSE of a single line IF, met at the end of the THEN
\* part, branches to the next line
do_xelse(m) ==
  do_elsewhen([m EXCEPT !.program[m.current].token = "BASIC_TOKEN_ELSE",
                        !.program[m.current].dest = NextLine(m.program, m.current)])

exec_xelse ==
  /\ AtToken({"BASIC_TOKEN_XELSE"})
  /\ Step(do_xelse(basicvars))

\* exec_xlhelse: the ELSE of a block IF, met at the end of the THEN part.
\* The search for the ENDIF starts at the ELSE itself.
RECURSIVE EndifScan(_, _, _)
EndifScan(prog, lp2, depth) ==
  With((IF prog[lp2].token = "BASIC_TOKEN_ENDIF" THEN depth - 1 ELSE depth)
         + (IF start_blockif(prog, lp2) THEN 1 ELSE 0), LAMBDA d :
    IF d = 0 THEN lp2
    ELSE IF NextLine(prog, lp2) > Len(prog) THEN NIL
    ELSE With(NextLine(prog, lp2), LAMBDA n : EndifScan(prog, n, d)))

do_xlhelse(m) ==
  With(EndifScan(m.program, m.current, 1), LAMBDA lp2 :
    IF lp2 = NIL THEN error(m, "ERR_ENDIF")
    ELSE do_elsewhen([m EXCEPT !.program[m.current].token = "BASIC_TOKEN_LHELSE",
                               !.program[m.current].dest = lp2 + 1]))

exec_xlhelse ==
  /\ AtToken({"BASIC_TOKEN_XLHELSE"})
  /\ Step(do_xlhelse(basicvars))

\* exec_elsewhen for an ELSE whose address is known
exec_elsewhen ==
  /\ AtToken({"BASIC_TOKEN_ELSE", "BASIC_TOKEN_LHELSE"})
  /\ Step(do_elsewhen(basicvars))

(***************************************************************************)
(* mainstate.c: SWAP                                                       *)
(***************************************************************************)
\* The codes of the types of values, in the order that arraytype[] in
\* stack.c is indexed by
VarCode(typeinfo) ==
  CASE typeinfo = "VAR_INTBYTE" -> 1 [] typeinfo = "VAR_INTWORD" -> 2
    [] typeinfo = "VAR_FLOAT" -> 3 [] typeinfo = "VAR_STRINGDOL" -> 4
    [] typeinfo = "VAR_DOLSTRING" -> 5 [] typeinfo = "VAR_INTLONG" -> 6
    [] typeinfo = "VAR_UINT8" -> 7

PointerTypes ==
  {"VAR_INTBYTEPTR", "VAR_INTWORDPTR", "VAR_FLOATPTR", "VAR_DOLSTRPTR"}

\* typeinfo <= VAR_FLOAT, or from VAR_INTBYTEPTR to VAR_FLOATPTR
SwapsAsNumber(typeinfo) ==
  /\ typeinfo \notin ArrayTypes
  /\ VarCode(TypeMasked(typeinfo)) <= VarCode("VAR_FLOAT")

\* the first switch of exec_swap: the value of an operand
SwapFetch(m, lv) ==
  CASE lv.typeinfo \in {"VAR_INTWORD", "VAR_UINT8", "VAR_INTLONG"} ->
         [isint |-> TRUE, val |-> Deref(m, lv.address), m |-> m]
    [] lv.typeinfo = "VAR_FLOAT" ->
         [isint |-> FALSE, val |-> Deref(m, lv.address), m |-> m]
    [] lv.typeinfo = "VAR_INTBYTEPTR" ->
         [isint |-> TRUE, val |-> Peek(m, lv.address), m |-> m]
    [] lv.typeinfo = "VAR_INTWORDPTR" ->
         [isint |-> TRUE, val |-> get_integer(m, lv.address), m |-> m]
    [] lv.typeinfo = "VAR_FLOATPTR" ->
         [isint |-> FALSE, val |-> get_float(m, lv.address), m |-> m]
    [] OTHER -> [isint |-> FALSE, val |-> 0, m |-> error(m, "ERR_BROKEN")]

\* the second and third switch: the value 'v' of the other operand goes
\* into the operand, as an integer or as a float after the operand's type
SwapStore(m, lv, v) ==
  LET asint == IF v.isint THEN v.val ELSE TruncHalves(v.val)
      asfloat == IF v.isint THEN TOFLOAT(v.val) ELSE v.val IN
  CASE lv.typeinfo \in {"VAR_INTWORD", "VAR_INTLONG"} -> Assign(m, lv.address, asint)
    [] lv.typeinfo = "VAR_UINT8" -> Assign(m, lv.address, uint8cast(asint))
    [] lv.typeinfo = "VAR_FLOAT" -> Assign(m, lv.address, asfloat)
    [] lv.typeinfo = "VAR_INTBYTEPTR" -> Poke(m, lv.address, asint)
    [] lv.typeinfo = "VAR_INTWORDPTR" -> store_integer(m, lv.address, asint)
    [] lv.typeinfo = "VAR_FLOATPTR" -> store_float(m, lv.address, asfloat)
    [] OTHER -> error(m, "ERR_BROKEN")

SwapNumbers(m, first, second) ==
  With(SwapFetch(m, first), LAMBDA v1 :
    IF Failed(v1.m) THEN v1.m
    ELSE With(SwapFetch(m, second), LAMBDA v2 :
           Then(SwapStore(m, second, v1), LAMBDA x : SwapStore(x, first, v2))))

\* aaa$ with $bbb: the text at $bbb becomes a string of its own and the
\* text of aaa$ is copied to $bbb with a carriage return after it
SwapStringPointer(m, first, second) ==
  LET len == get_stringlen(m, second.address)
      stringtemp == Descriptor(len, NewStringAddr(m, MemBytes(m, second.address, len)))
      old == Deref(m, first.address)
      Copied(x) ==
        Poke(MemMove(x, second.address, StringBytes(x, old)),
             second.address + old.stringlen, asc_CR) IN
  With(alloc_string(m, MemBytes(m, second.address, len)), LAMBDA x :
    Assign(free_string(Copied(x), old), first.address, stringtemp))

\* $aaa with $bbb, by way of basicvars.stringwork
SwapPointers(m, first, second) ==
  LET stringwork == MemBytes(m, first.address, get_stringlen(m, first.address) + 1)
      moved == MemBytes(m, second.address, get_stringlen(m, second.address) + 1) IN
  MemMove(MemMove(m, first.address, moved), second.address, stringwork)

SwapStrings(m, first, second) ==
  IF second.typeinfo \notin {"VAR_STRINGDOL", "VAR_DOLSTRPTR"}
  THEN error(m, "ERR_NOSWAP")
  ELSE IF first.typeinfo = "VAR_STRINGDOL" /\ second.typeinfo = "VAR_STRINGDOL"
  THEN Assign(Assign(m, first.address, Deref(m, second.address)),
              second.address, Deref(m, first.address))
  ELSE IF first.typeinfo = "VAR_DOLSTRPTR" /\ second.typeinfo = "VAR_DOLSTRPTR"
  THEN SwapPointers(m, first, second)
  ELSE IF first.typeinfo = "VAR_DOLSTRPTR"
  THEN SwapStringPointer(m, second, first)
  ELSE SwapStringPointer(m, first, second)

\* the variables exchange their arrays, and the arrays their parents
SwapArrays(m, first, second) ==
  LET a1 == Deref(m, first.address)
      a2 == Deref(m, second.address)
      var1 == m.arrays[a1].parent
      var2 == m.arrays[a2].parent IN
  IF second.typeinfo # first.typeinfo THEN error(m, "ERR_NOSWAP")
  ELSE [m EXCEPT !.varlists[var1] = m.varlists[var2],
                 !.varlists[var2] = m.varlists[var1],
                 !.arrays[m.varlists[var2]].parent =
                    m.arrays[m.varlists[var1]].parent,
                 !.arrays[m.varlists[var1]].parent =
                    m.arrays[m.varlists[var2]].parent]

do_swap(m) ==
  LET first == m.program[m.current].first
      second == m.program[m.current].second
      n == Goto(m, m.current + 1) IN
  IF SwapsAsNumber(first.typeinfo) /\ SwapsAsNumber(second.typeinfo)
  THEN SwapNumbers(n, first, second)
  ELSE IF first.typeinfo \in {"VAR_STRINGDOL", "VAR_DOLSTRPTR"}
  THEN SwapStrings(n, first, second)
  ELSE IF first.typeinfo \in ArrayTypes THEN SwapArrays(n, first, second)
  ELSE error(n, "ERR_NOSWAP")

exec_swap ==
  /\ AtToken({"BASIC_TOKEN_SWAP"})
  /\ Step(do_swap(basicvars))

(***************************************************************************)
(* The symbol tables.  The program has a table, basicvars.varlists, and    *)
(* every library has one of its own for the variables it has declared      *)
(* private.  A table is VARLISTS lists; a variable is kept in the list     *)
(* that its hash value selects, the newest first.  A name is its bytes,    *)
(* and a library is known by the address it starts at.                     *)
(***************************************************************************)
VARLISTS == 64

VARMASK == VARLISTS - 1

RECURSIVE Xor(_, _)
Xor(a, b) ==
  IF a = 0 THEN b ELSE IF b = 0 THEN a
  ELSE ((a + b) % 2) + 2 * Xor(a \div 2, b \div 2)

\* hash: hashtotal = hashtotal*5 ^ *p for every byte of the name
RECURSIVE HashFrom(_, _)
HashFrom(hashtotal, p) ==
  IF p = <<>> THEN hashtotal
  ELSE HashFrom(Xor(hashtotal * 5, Head(p)), Tail(p))

hash(p) == HashFrom(0, p)

\* hashvalue & VARMASK, for a hash value that is not negative
ListOf(hashvalue) == hashvalue % VARLISTS

EmptyTable == [n \in 0..VARMASK |-> <<>>]

NoVariable == [varname |-> <<>>, varhash |-> 0, varowner |-> NIL]

\* the name as the tables keep it: a '[' at its end is written '('
NameOf(np) ==
  IF np # <<>> /\ np[Len(np)] = 91 THEN [np EXCEPT ![Len(np)] = 40] ELSE np

\* the libraries of a list, first the one its head points at
RECURSIVE InLibrary(_, _)
InLibrary(list, wanted) ==
  IF list = <<>> THEN NIL
  ELSE IF wanted < Head(list).libstart
          \/ wanted >= Head(list).libstart + Head(list).libsize
       THEN InLibrary(Tail(list), wanted)
  ELSE Head(list).libstart

\* find_library: the library that the address is in, or NIL
find_library(m, wanted) ==
  IF InLibrary(m.liblist, wanted) # NIL THEN InLibrary(m.liblist, wanted)
  ELSE InLibrary(m.installist, wanted)

\* the symbol table of a library
LibraryTable(m, lp) ==
  LET all == m.liblist \o m.installist
      i == CHOOSE k \in DOMAIN all : all[k].libstart = lp IN
  all[i].varlists

\* the search of one list of a table
RECURSIVE SearchList(_, _, _)
SearchList(vp, hashvalue, name) ==
  IF vp = <<>> THEN NoVariable
  ELSE IF hashvalue # Head(vp).varhash \/ name # Head(vp).varname
       THEN SearchList(Tail(vp), hashvalue, name)
  ELSE Head(vp)

\* a find_variable that looks in the table of every library
find_variable_anywhere(m, np, varname) ==
  LET name == NameOf(varname)
      hashvalue == hash(name)
      all == m.liblist \o m.installist
      hits == {k \in DOMAIN all :
                 SearchList(all[k].varlists[ListOf(hashvalue)], hashvalue, name)
                   # NoVariable} IN
  IF hits # {}
  THEN SearchList(all[CHOOSE k \in hits : TRUE].varlists[ListOf(hashvalue)],
                  hashvalue, name)
  ELSE SearchList(m.varlists[ListOf(hashvalue)], hashvalue, name)

\* find_variable for a reference at address np: the table of the library
\* the reference is in, if it is in one, and then the table of the program
find_variable_at(m, np, varname) ==
  LET name == NameOf(varname)
      hashvalue == hash(name)
      lp == find_library(m, np)
      vp == IF lp = NIL THEN NoVariable
            ELSE SearchList(LibraryTable(m, lp)[ListOf(hashvalue)], hashvalue, name) IN
  IF vp # NoVariable THEN vp
  ELSE SearchList(m.varlists[ListOf(hashvalue)], hashvalue, name)

\* create_variable with its library: the variable goes to the head of its
\* list in the table of the program (lp = NIL) or of the library
create_variable_in(m, varname, lp) ==
  LET hashvalue == hash(NameOf(varname))
      vp == [varname |-> NameOf(varname), varhash |-> hashvalue, varowner |-> lp]
      Add(list) ==
        [i \in DOMAIN list |->
           IF list[i].libstart = lp
           THEN [list[i] EXCEPT !.varlists[ListOf(hashvalue)] = <<vp>> \o @]
           ELSE list[i]] IN
  IF lp = NIL
  THEN [m EXCEPT !.varlists[ListOf(hashvalue)] = <<vp>> \o @]
  ELSE [m EXCEPT !.liblist = Add(m.liblist), !.installist = Add(m.installist)]

(***************************************************************************)
(* CLEAR and RUN.  basicvars.varlists holds the variables made while the   *)
(* program runs and basicvars.staticvars the static integers @% and A% to  *)
(* Z%.  The model keeps the values of both by name: the static variables   *)
(* are those with a name in StaticNames.  The heap and the string heap     *)
(* (clear_heap, clear_strings) and the pointers in the tokens              *)
(* (clear_varptrs) are not part of the source modelled here.               *)
(***************************************************************************)
STDFORMAT == 2314

StaticNames ==
  {"@%", "A%", "B%", "C%", "D%", "E%", "F%", "G%", "H%", "I%", "J%", "K%",
   "L%", "M%", "N%", "O%", "P%", "Q%", "R%", "S%", "T%", "U%", "V%", "W%",
   "X%", "Y%", "Z%"}

\* a clear_varlists that empties the table of static variables with the rest
clear_varlists_static(m) ==
  [m EXCEPT !.varlists = [n \in {} |-> 0]]

\* clear_varlists: every list of variables becomes empty
clear_varlists(m) ==
  [m EXCEPT !.varlists =
              [n \in DOMAIN m.varlists \cap StaticNames |-> m.varlists[n]],
            !.lastsearch = 1,
            !.liblist = <<>>,
            !.installist = [i \in DOMAIN m.installist |->
                              [m.installist[i] EXCEPT !.varlists = EmptyTable]]]

\* the descriptors of the arrays that DIM HIMEM made, still in use
OffheapArrays(m) ==
  {d \in DOMAIN m.arrays :
     /\ m.arrays[d].offheap
     /\ m.arrays[d].parent \in DOMAIN m.varlists \ StaticNames
     /\ m.varlists[m.arrays[d].parent] = d}

\* clear_offheaparrays: the arrays made by DIM HIMEM are freed and their
\* variables removed
clear_offheaparrays(m) ==
  [m EXCEPT !.varlists =
     [n \in DOMAIN m.varlists \ {m.arrays[d].parent : d \in OffheapArrays(m)}
        |-> m.varlists[n]]]

\* clear_varptrs: the calls of procedures and functions and the CASE
\* statements go back to the form they had before they were first executed
clear_varptrs(m) ==
  [m EXCEPT !.program =
     [i \in DOMAIN m.program |->
        IF m.program[i].token = "BASIC_TOKEN_FNPROCALL"
        THEN [m.program[i] EXCEPT !.token = "BASIC_TOKEN_XFNPROCALL", !.dest = NIL]
        ELSE IF m.program[i].token = "BASIC_TOKEN_CASE"
        THEN [m.program[i] EXCEPT !.token = "BASIC_TOKEN_XCASE", !.table = NoTable]
        ELSE m.program[i]]]

clear_strings(m) == [m EXCEPT !.strheap = <<>>]

clear_heap(m) == [m EXCEPT !.arrays = <<>>]

\* exec_clear_himem: CLEAR HIMEM frees every array made by DIM HIMEM, and
\* CLEAR HIMEM <array> the one named, an array that has its dimensions
exec_clear_himem(m) ==
  LET s == m.program[m.current]
      next == Goto(m, m.current + 1) IN
  IF s.array = "" THEN clear_offheaparrays(next)
  ELSE IF ~m.arrays[m.varlists[s.array]].offheap
    THEN error(next, "ERR_OFFHEAPARRAY")
  ELSE remove_variable(next, m.arrays[m.varlists[s.array]].parent)

\* exec_clear
do_clear(m) ==
  IF m.program[m.current].what = "BASIC_TOKEN_HIMEM" THEN exec_clear_himem(m)
  ELSE clear_stack(clear_heap(clear_strings(clear_varlists(clear_varptrs(
         clear_offheaparrays(Goto(m, m.current + 1)))))))

exec_clear ==
  /\ AtToken({"BASIC_TOKEN_CLEAR"})
  /\ Step(do_clear(basicvars))

\* run_program, called while a program runs: the longjmp takes it back to
\* the run_program that started the program, which starts it again where it
\* started it before, after clearing what a run leaves behind.  The flag
\* has_variables is set by every insertion in varlists and cleared by
\* clear_varlists alone.
run_program(m) ==
  With(clear_varptrs(clear_error(m)), LAMBDA x :
    With(IF DOMAIN x.varlists \subseteq StaticNames THEN x
         ELSE clear_varlists(x), LAMBDA y :
      [clear_stack(clear_heap(clear_strings(y))) EXCEPT
         !.lastsearch = 1, !.curcount = 0, !.savedcur = <<>>,
         !.datacur = NIL, !.outofdata = FALSE, !.current = 1]))

\* pop_anynum32: as pop_anynum64, the value narrowed to 32 bits (every number
\* of the model is within 32 bits, and is left as it is)
pop_anynum32(m) == pop_anynum64(m)

\* exec_run: RUN and RUN <line>.  (RUN <file name> reads another program
\* in; no program here does that.)
do_run(m) ==
  LET s == m.program[m.current]
      next == Goto(m, m.current + 1) IN
  IF s.line = NoValue THEN run_program(next)
  ELSE With(pop_anynum32(PushValue(next, s.line)), LAMBDA line :
         IF Failed(line.m) THEN line.m
         ELSE IF line.val < 0 \/ line.val > MAXLINENO
              THEN error(line.m, "ERR_LINENO")
         ELSE IF LineMissing(line.m, find_line(line.m, line.val), line.val)
              THEN error(line.m, "ERR_LINEMISS")
         ELSE run_program(line.m))

exec_run ==
  /\ AtToken({"BASIC_TOKEN_RUN"})
  /\ Step(do_run(basicvars))

(***************************************************************************)
(* The end of a statement.  A token is a byte; ateol and statements have   *)
(* an entry for each of the 256 bytes, here at index byte + 1.             *)
(***************************************************************************)
ateol ==
  <<
    TRUE, FALSE, FALSE, FALSE, FALSE, FALSE, FALSE, FALSE,
    FALSE, FALSE, FALSE, FALSE, FALSE, FALSE, FALSE, FALSE,
    FALSE, FALSE, FALSE, FALSE, FALSE, FALSE, FALSE, FALSE,
    FALSE, FALSE, FALSE, FALSE, FALSE, FALSE, FALSE, FALSE,
    FALSE, FALSE, FALSE, FALSE, FALSE, FALSE, FALSE, FALSE,
    FALSE, FALSE, FALSE, FALSE, FALSE, FALSE, FALSE, FALSE,
    FALSE, FALSE, FALSE, FALSE, FALSE, FALSE, FALSE, FALSE,
    FALSE, FALSE, TRUE, FALSE, FALSE, FALSE, FALSE, FALSE,
    FALSE, FALSE, FALSE, FALSE, FALSE, FALSE, FALSE, FALSE,
    FALSE, FALSE, FALSE, FALSE, FALSE, FALSE, FALSE, FALSE,
    FALSE, FALSE, FALSE, FALSE, FALSE, FALSE, FALSE, FALSE,
    FALSE, FALSE, FALSE, FALSE, FALSE, FALSE, FALSE, FALSE,
    FALSE, FALSE, FALSE, FALSE, FALSE, FALSE, FALSE, FALSE,
    FALSE, FALSE, FALSE, FALSE, FALSE, FALSE, FALSE, FALSE,
    FALSE, FALSE, FALSE, FALSE, FALSE, FALSE, FALSE, FALSE,
    FALSE, FALSE, FALSE, FALSE, FALSE, FALSE, FALSE, FALSE,
    FALSE, FALSE, FALSE, FALSE, FALSE, FALSE, FALSE, FALSE,
    FALSE, FALSE, FALSE, FALSE, FALSE, FALSE, FALSE, FALSE,
    FALSE, FALSE, FALSE, FALSE, FALSE, FALSE, FALSE, FALSE,
    FALSE, FALSE, FALSE, FALSE, FALSE, FALSE, FALSE, FALSE,
    FALSE, FALSE, TRUE, TRUE, FALSE, FALSE, FALSE, FALSE,
    FALSE, FALSE, FALSE, FALSE, FALSE, FALSE, FALSE, FALSE,
    FALSE, FALSE, FALSE, FALSE, FALSE, FALSE, FALSE, FALSE,
    FALSE, FALSE, FALSE, FALSE, FALSE, FALSE, FALSE, FALSE,
    FALSE, FALSE, FALSE, FALSE, FALSE, FALSE, FALSE, FALSE,
    FALSE, FALSE, FALSE, FALSE, FALSE, FALSE, FALSE, FALSE,
    FALSE, FALSE, FALSE, FALSE, FALSE, FALSE, FALSE, FALSE,
    FALSE, FALSE, FALSE, FALSE, FALSE, FALSE, FALSE, FALSE,
    FALSE, FALSE, FALSE, FALSE, FALSE, FALSE, FALSE, FALSE,
    FALSE, FALSE, FALSE, FALSE, FALSE, FALSE, FALSE, FALSE,
    FALSE, FALSE, FALSE, FALSE, FALSE, FALSE, FALSE, FALSE,
    FALSE, FALSE, FALSE, FALSE, FALSE, FALSE, FALSE, FALSE
  >>

\* statements: the function that handles a statement starting with the byte
statements ==
  <<
    "next_line", "exec_assignment", "assign_staticvar", "assign_uint8var",
    "assign_intvar", "assign_int64var", "assign_floatvar", "assign_stringvar",
    "exec_assignment", "exec_assignment", "exec_assignment", "exec_assignment",
    "exec_assignment", "exec_assignment", "exec_assignment", "exec_xproc",
    "exec_proc", "bad_syntax", "bad_syntax", "bad_syntax",
    "bad_syntax", "bad_syntax", "bad_syntax", "bad_syntax",
    "bad_syntax", "bad_syntax", "bad_token", "bad_token",
    "bad_token", "bad_token", "bad_token", "bad_token",
    "skip_colon", "exec_assignment", "bad_syntax", "bad_syntax",
    "exec_assignment", "bad_syntax", "bad_syntax", "bad_syntax",
    "bad_syntax", "bad_syntax", "bad_syntax", "bad_syntax",
    "bad_syntax", "bad_syntax", "bad_syntax", "bad_syntax",
    "bad_token", "bad_token", "bad_token", "bad_token",
    "bad_token", "bad_token", "bad_token", "bad_token",
    "bad_token", "bad_token", "skip_colon", "bad_syntax",
    "bad_syntax", "exec_fnreturn", "bad_syntax", "exec_assignment",
    "bad_syntax", "bad_token", "bad_token", "bad_token",
    "bad_token", "bad_token", "bad_token", "bad_token",
    "bad_token", "bad_token", "bad_token", "bad_token",
    "bad_token", "bad_token", "bad_token", "bad_token",
    "bad_token", "bad_token", "bad_token", "bad_token",
    "bad_token", "bad_token", "bad_token", "bad_token",
    "bad_token", "bad_token", "bad_token", "exec_assembler",
    "bad_syntax", "exec_assignment", "bad_syntax", "bad_token",
    "bad_token", "bad_token", "bad_token", "bad_token",
    "bad_token", "bad_token", "bad_token", "bad_token",
    "bad_token", "bad_token", "bad_token", "bad_token",
    "bad_token", "bad_token", "bad_token", "bad_token",
    "bad_token", "bad_token", "bad_token", "bad_token",
    "bad_token", "bad_token", "bad_token", "bad_token",
    "bad_token", "bad_token", "bad_token", "bad_syntax",
    "exec_assignment", "bad_syntax", "bad_syntax", "bad_token",
    "bad_syntax", "bad_syntax", "exec_oscmd", "bad_syntax",
    "bad_syntax", "bad_syntax", "exec_oscmd", "bad_syntax",
    "bad_syntax", "bad_syntax", "exec_oscmd", "bad_syntax",
    "bad_syntax", "bad_syntax", "bad_token", "bad_token",
    "exec_beats", "exec_bput", "exec_call", "exec_xcase",
    "exec_case", "exec_chain", "exec_circle", "exec_clg",
    "exec_clear", "exec_close", "exec_cls", "exec_colour",
    "exec_data", "exec_def", "exec_dim", "exec_draw",
    "bad_syntax", "exec_ellipse", "exec_xelse", "exec_elsewhen",
    "exec_xlhelse", "exec_elsewhen", "exec_end", "exec_endifcase",
    "exec_endifcase", "exec_endproc", "exec_endwhile", "exec_envelope",
    "exec_error", "bad_syntax", "exec_fill", "exec_fillby",
    "bad_token", "exec_for", "exec_gcol", "exec_gosub",
    "exec_goto", "exec_xif", "exec_blockif", "exec_singlif",
    "exec_input", "exec_let", "exec_library", "exec_line",
    "exec_local", "exec_mode", "exec_mouse", "exec_move",
    "exec_exit", "exec_next", "bad_syntax", "bad_syntax",
    "exec_off", "exec_on", "exec_origin", "exec_oscli",
    "exec_xwhen", "exec_elsewhen", "exec_overlay", "exec_plot",
    "exec_point", "exec_print", "exec_proc", "exec_quit",
    "exec_read", "exec_rectangle", "exec_rem", "exec_repeat",
    "exec_report", "exec_restore", "exec_return", "exec_run",
    "exec_sound", "exec_oscmd", "bad_syntax", "exec_stereo",
    "exec_stop", "exec_swap", "exec_sys", "exec_tempo",
    "bad_syntax", "exec_tint", "bad_syntax", "exec_trace",
    "bad_syntax", "exec_until", "exec_vdu", "exec_voice",
    "exec_voices", "exec_wait", "exec_xwhen", "exec_elsewhen",
    "exec_while", "exec_while", "exec_width", "bad_token",
    "bad_token", "bad_token", "bad_token", "bad_token",
    "bad_token", "bad_token", "bad_token", "bad_token",
    "bad_token", "bad_token", "bad_token", "bad_token",
    "exec_command", "flag_badline", "bad_syntax", "assign_pseudovar"
  >>

Bytes == 0..255

asc_NUL == 0

\* the bytes that are a token of ELSE, WHEN or OTHERWISE: those handed to
\* exec_xelse and exec_xlhelse (an ELSE met for the first time), to exec_xwhen
\* (a WHEN or OTHERWISE met for the first time) and to exec_elsewhen (any of
\* them met again)
ElseWhenTokens ==
  {b \in Bytes : statements[b + 1] \in
     {"exec_xelse", "exec_xlhelse", "exec_xwhen", "exec_elsewhen"}}

\* an isateol that takes every token of ELSE, WHEN and OTHERWISE for the end
\* of a statement
isateol_keywords(p) == p \in {asc_NUL, 58} \cup ElseWhenTokens

\* isateol: the entry of ateol for the byte
isateol(p) == ateol[p + 1]

\* check_ateol: a syntax error unless the byte at basicvars.current ends a
\* statement
check_ateol(m, token) ==
  IF ~ateol[token + 1] THEN error(m, "ERR_SYNTAX") ELSE m

(***************************************************************************)
(* mainstate.c: READ into a string variable                                *)
(***************************************************************************)
asc_QUOTE == 34

asc_COMMA == 44

asc_SPACE == 32

\* skip: the first byte at cp or after it that is not a blank
RECURSIVE skip(_, _)
skip(m, cp) == IF Peek(m, cp) = asc_SPACE THEN skip(m, cp + 1) ELSE cp

\* The loop of read_string over a field in quotes: cp is moved on by one,
\* and over two quotes in a row, until it is at a quote or at the end of the
\* line
RECURSIVE QuotedEnd(_, _)
QuotedEnd(m, cp) ==
  With(IF Peek(m, cp + 1) = asc_QUOTE /\ Peek(m, cp + 2) = asc_QUOTE
       THEN cp + 3 ELSE cp + 1, LAMBDA next :
    IF Peek(m, next) # asc_NUL /\ Peek(m, next) # asc_QUOTE
    THEN QuotedEnd(m, next) ELSE next)

\* the ',' or NUL at cp or after it
RECURSIVE FieldEnd(_, _)
FieldEnd(m, cp) ==
  IF Peek(m, cp) # asc_NUL /\ Peek(m, cp) # asc_COMMA
  THEN FieldEnd(m, cp + 1) ELSE cp

\* memcpydedupe: the bytes it writes from the start of dest, and the number
\* of bytes it has left out
RECURSIVE memcpydedupe(_, _, _, _, _)
memcpydedupe(m, src, len, dedupe, sptr) ==
  IF sptr >= len THEN [bytes |-> <<>>, shorten |-> 0]
  ELSE IF Peek(m, src + sptr) = dedupe /\ Peek(m, src + sptr + 1) = dedupe
  THEN With(memcpydedupe(m, src, len, dedupe, sptr + 2), LAMBDA rest :
         [bytes |-> <<dedupe>> \o rest.bytes, shorten |-> rest.shorten + 1])
  ELSE With(memcpydedupe(m, src, len, dedupe, sptr + 1), LAMBDA rest :
         [bytes |-> <<Peek(m, src + sptr)>> \o rest.bytes,
          shorten |-> rest.shorten])

\* the bytes written over the start of what a block of the string heap holds
WriteString(m, addr, bytes) ==
  [m EXCEPT !.strheap[addr].data =
     [i \in DOMAIN @ |-> IF i <= Len(bytes) THEN bytes[i] ELSE @[i]]]

\* Saving the field: 'length' is the length of the field as read_string has
\* found it and 'copy' what memcpydedupe makes of its bytes.  alloc_string
\* does not clear the block it hands out: it holds the bytes 'junk'.
SaveField(m, destination, length, copy, junk) ==
  LET old == Deref(m, destination.address)
      freed == free_string(m, old)
      fresh == Assign(alloc_string(freed, junk), destination.address,
                      Descriptor(length, NewStringAddr(freed, junk))) IN
  CASE destination.typeinfo = "VAR_STRINGDOL" ->
         With(IF old.stringlen # length THEN fresh ELSE m, LAMBDA n :
           IF length # 0
           THEN WriteString(n, Deref(n, destination.address).stringaddr,
                            copy.bytes)
           ELSE n)
    [] destination.typeinfo = "VAR_DOLSTRPTR" ->
         Poke(IF length # 0 THEN MemMove(m, destination.address, copy.bytes)
              ELSE m,
              destination.address + length
                - (IF length # 0 THEN copy.shorten ELSE 0), asc_CR)
    [] OTHER -> error(m, "ERR_VARNUMSTR")

read_string(m, destination, junk) ==
  LET start == skip(m, m.datacur) IN
  IF Peek(m, start) = asc_QUOTE
  THEN With(QuotedEnd(m, start), LAMBDA cp :
         IF Peek(m, cp) # asc_QUOTE THEN error(m, "ERR_QUOTEMISS")
         ELSE SaveField([m EXCEPT !.datacur = FieldEnd(m, cp + 1)],
                        destination, cp - (start + 1),
                        memcpydedupe(m, start + 1, cp - (start + 1),
                                     asc_QUOTE, 0),
                        SubSeq(junk, 1, cp - (start + 1))))
  ELSE With(FieldEnd(m, start), LAMBDA cp :
         SaveField([m EXCEPT !.datacur = cp], destination, cp - start,
                   memcpydedupe(m, start, cp - start, asc_QUOTE, 0),
                   SubSeq(junk, 1, cp - start)))

(***************************************************************************)
(* mainstate.c: READ.  In a program of statements the DATA pointer is the  *)
(* place of a DATA statement and the number of its fields that have been   *)
(* read: 0 at the DATA token, and otherwise at the ',' or the end of line  *)
(* after that field.  A field is the value its text has as an expression,  *)
(* or for a string its text.                                               *)
(***************************************************************************)
NoField == [m |-> init_stack, line |-> 0, field |-> 0]

\* find_data: the field the next value is read from
find_data(m) ==
  LET dp == m.datacur
      prog == m.program IN
  IF dp # NIL /\ DataField(dp) < Len(DataItems(prog[DataLine(dp)]))
  THEN [m |-> m, line |-> DataLine(dp), field |-> DataField(dp) + 1]
  ELSE With(FindData(prog, IF dp = NIL THEN 1 ELSE NextLine(prog, DataLine(dp))),
            LAMBDA dest :
         IF dest \notin DOMAIN prog
         THEN [NoField EXCEPT !.m = error(m, "ERR_DATA")]
         ELSE [m |-> m, line |-> dest, field |-> 1])

\* read_numeric: the field is evaluated as an expression and its value is
\* stored in the variable
read_numeric(m, destination, item, after) ==
  LET t == destination.typeinfo
      a == destination.address
      moved == [m EXCEPT !.datacur = after]
      \* the place in the program is saved while expression() works on the
      \* text of the field, and brought back when it has returned
      saved == save_current(moved)
      pushed == Then(Then(saved, LAMBDA x : PushValue(x, item)), restore_current)
      Store32(F(_, _)) ==
        With(pop_anynum32(pushed), LAMBDA r : Then(r.m, LAMBDA x : F(x, r.val)))
      Store64(F(_, _)) ==
        With(pop_anynum64(pushed), LAMBDA r : Then(r.m, LAMBDA x : F(x, r.val)))
      StoreFp(F(_, _)) ==
        With(pop_anynumfp(pushed), LAMBDA r : Then(r.m, LAMBDA x : F(x, r.val)))
  IN
  IF item = NoValue THEN error(m, "ERR_BADEXPR")
  ELSE IF item.itemtype = "error"
       THEN Then(saved, LAMBDA x : error(x, item.value))
  ELSE IF Failed(pushed) THEN pushed
  ELSE CASE t = "VAR_INTWORD" -> Store32(LAMBDA x, v : Assign(x, a, v))
         [] t = "VAR_UINT8" -> Store32(LAMBDA x, v : Assign(x, a, v % 256))
         [] t = "VAR_INTLONG" -> Store64(LAMBDA x, v : Assign(x, a, v))
         [] t = "VAR_FLOAT" -> StoreFp(LAMBDA x, v : Assign(x, a, v))
         [] t = "VAR_INTBYTEPTR" -> Store32(LAMBDA x, v : Poke(x, a, v))
         [] t = "VAR_INTWORDPTR" -> Store32(LAMBDA x, v : store_integer(x, a, v))
         [] t = "VAR_FLOATPTR" -> StoreFp(LAMBDA x, v : store_float(x, a, v))
         [] OTHER -> error(pushed, "ERR_VARNUMSTR")

\* read_string for a field with no quote in it: its text is stored as it is
ReadText(m, destination, item, after) ==
  SaveField([m EXCEPT !.datacur = after], destination, Len(item.value),
            [bytes |-> item.value, shorten |-> 0], item.value)

\* exec_read: for each variable in turn, the next field is found and read
RECURSIVE ReadLoop(_, _, _)
ReadLoop(m, dests, i) ==
  With(find_data(m), LAMBDA at :
    IF Failed(at.m) THEN at.m
    ELSE With(IF TypeMasked(dests[i].typeinfo)
                   \in {"VAR_INTWORD", "VAR_INTLONG", "VAR_FLOAT", "VAR_UINT8"}
              THEN read_numeric(m, dests[i],
                                DataItems(m.program[at.line])[at.field],
                                DataAddress(at.line, at.field))
              ELSE ReadText(m, dests[i],
                            DataItems(m.program[at.line])[at.field],
                            DataAddress(at.line, at.field)),
              LAMBDA n :
           IF Failed(n) \/ i = Len(dests) THEN n
           ELSE ReadLoop(n, dests, i + 1)))

do_read(m) ==
  LET s == m.program[m.current]
      next == Goto(m, m.current + 1) IN
  IF s.dests = <<>> THEN next
  ELSE IF m.outofdata THEN error(next, "ERR_DATA")
  ELSE ReadLoop(next, s.dests, 1)

exec_read ==
  /\ AtToken({"BASIC_TOKEN_READ"})
  /\ Step(do_read(basicvars))

(***************************************************************************)
(* Programs.  A statement is a record: its line number, its token and the  *)
(* operands the handler of the token reads.                                *)
(***************************************************************************)
Simple(lineno, token) == [lineno |-> lineno, token |-> token]

While(lineno) == [lineno |-> lineno, token |-> "BASIC_TOKEN_XWHILE", dest |-> NIL]

For(lineno, forvar, initial, limit, step) ==
  [lineno |-> lineno, token |-> "BASIC_TOKEN_FOR", forvar |-> forvar,
   initial |-> initial, limit |-> limit, step |-> step]

Next(lineno, nextvars) ==
  [lineno |-> lineno, token |-> "BASIC_TOKEN_NEXT", nextvars |-> nextvars]

IntVar(name) == Lvalue("VAR_INTWORD", name)

\* FOR I%=1 TO MaxLimit: REPEAT: WHILE ..: FOR F=1.5 TO 0 STEP -0.5: NEXT:
\* ENDWHILE: UNTIL ..: NEXT: FOR L%%=1 TO 3 STEP 2: NEXT: END
MaxLimit == 2

ProgLoops ==
  <<For(10, IntVar("I%"), TV("STACK_INT", 1), TV("STACK_INT", MaxLimit), NoValue),
    Simple(20, "BASIC_TOKEN_REPEAT"),
    While(30),
    For(40, Lvalue("VAR_FLOAT", "F"), TV("STACK_FLOAT", 3), TV("STACK_INT", 0),
        TV("STACK_FLOAT", -1)),
    Next(50, <<>>),
    Simple(60, "BASIC_TOKEN_ENDWHILE"),
    Simple(70, "BASIC_TOKEN_UNTIL"),
    Next(80, <<IntVar("I%")>>),
    For(90, Lvalue("VAR_INTLONG", "L%%"), TV("STACK_INT", 1), TV("STACK_INT", 3),
        TV("STACK_INT", 2)),
    Next(100, <<>>),
    Simple(110, "BASIC_TOKEN_END")>>

\* WHILE ..: REPEAT: ENDWHILE: END, and the same with FOR for REPEAT
ProgEndwhileRepeat ==
  <<While(10), Simple(20, "BASIC_TOKEN_REPEAT"),
    Simple(30, "BASIC_TOKEN_ENDWHILE"), Simple(40, "BASIC_TOKEN_END")>>

ProgEndwhileFor ==
  <<While(10),
    For(20, IntVar("I%"), TV("STACK_INT", 1), TV("STACK_INT", MaxLimit), NoValue),
    Simple(30, "BASIC_TOKEN_ENDWHILE"), Simple(40, "BASIC_TOKEN_END")>>

Call(lineno, fnproc, name, actuals) ==
  [lineno |-> lineno, token |-> "BASIC_TOKEN_XFNPROCALL", fnproc |-> fnproc,
   name |-> name, actuals |-> actuals, dest |-> NIL]

Def(lineno, name, formals) ==
  [lineno |-> lineno, token |-> "BASIC_TOKEN_DEF", name |-> name,
   formals |-> formals]

Formal(lv, isreturn) == [lv |-> lv, isreturn |-> isreturn]

\* an actual parameter that is an expression, and one that is a variable
Value(tv) == [tv |-> tv, lv |-> Lvalue("none", NIL)]

Ref(lv) == [tv |-> NoValue, lv |-> lv]

Local(lineno, what, locvars) ==
  [lineno |-> lineno, token |-> "BASIC_TOKEN_LOCAL", what |-> what,
   locvars |-> locvars]

OnError(lineno, what) == [lineno |-> lineno, token |-> "BASIC_TOKEN_ON", what |-> what]

Error(lineno, number, text) ==
  [lineno |-> lineno, token |-> "BASIC_TOKEN_ERROR", number |-> number,
   text |-> text]

\* 10 DEF FNf(J%) = ..
\* 20 FOR I%=1 TO MaxLimit: 30 PROCp(5, G, T$): 40 NEXT
\* 50 FOR I%=FNf(2) TO 0: 60 END
\* 70 DEF PROCp(J%, RETURN F, RETURN S$)
\* 80 LOCAL J%, B&, L%%, H, S$, ?0, !4, |8, $16, A%()
\* 90 LOCAL ERROR: 100 LOCAL DATA: 110 REPEAT: 120 FOR F=1.5 TO 0: 130 ENDPROC
ProgProc ==
  <<Def(10, "FNf", <<Formal(IntVar("J%"), FALSE)>>),
    Simple(10, "="),
    For(20, IntVar("I%"), TV("STACK_INT", 1), TV("STACK_INT", MaxLimit), NoValue),
    Call(30, "PROC", "PROCp",
         <<Value(TV("STACK_INT", 5)), Ref(Lvalue("VAR_FLOAT", "G")),
           Ref(Lvalue("VAR_STRINGDOL", "T$"))>>),
    Next(40, <<>>),
    Call(50, "FN", "FNf", <<Value(TV("STACK_FLOAT", 5))>>),
    For(50, IntVar("I%"), TV("result", 0), TV("STACK_INT", 0), NoValue),
    Simple(60, "BASIC_TOKEN_END"),
    Def(70, "PROCp",
        <<Formal(IntVar("J%"), FALSE), Formal(Lvalue("VAR_FLOAT", "F"), TRUE),
          Formal(Lvalue("VAR_STRINGDOL", "S$"), TRUE)>>),
    Local(80, "variables",
          <<IntVar("J%"), Lvalue("VAR_UINT8", "B&"), Lvalue("VAR_INTLONG", "L%%"),
            Lvalue("VAR_FLOAT", "H"), Lvalue("VAR_STRINGDOL", "S$"),
            Lvalue("VAR_INTBYTEPTR", 0), Lvalue("VAR_INTWORDPTR", 4),
            Lvalue("VAR_FLOATPTR", 8), Lvalue("VAR_DOLSTRPTR", 16),
            Lvalue("VAR_INTARRAY", "A%()")>>),
    Local(90, "BASIC_TOKEN_ERROR", <<>>),
    Local(100, "BASIC_TOKEN_DATA", <<>>),
    Simple(110, "BASIC_TOKEN_REPEAT"),
    For(120, Lvalue("VAR_FLOAT", "F"), TV("STACK_FLOAT", 3), TV("STACK_INT", 0),
        NoValue),
    Simple(130, "BASIC_TOKEN_ENDPROC")>>

\* 10 PROCq: 20 END: 30 DEF PROCq: 40 LOCAL A%%(): 50 ENDPROC
ProgLocalInt64Array ==
  <<Call(10, "PROC", "PROCq", <<>>), Simple(20, "BASIC_TOKEN_END"),
    Def(30, "PROCq", <<>>),
    Local(40, "variables", <<Lvalue("VAR_INT64ARRAY", "A%%()")>>),
    Simple(50, "BASIC_TOKEN_ENDPROC")>>

\* 10 PROCr(B&): 20 END: 30 DEF PROCr(RETURN C&): 40 ENDPROC, and the same
\* with the 64-bit integers L%% and M%%
ProgReturnUint8 ==
  <<Call(10, "PROC", "PROCr", <<Ref(Lvalue("VAR_UINT8", "B&"))>>),
    Simple(20, "BASIC_TOKEN_END"),
    Def(30, "PROCr", <<Formal(Lvalue("VAR_UINT8", "C&"), TRUE)>>),
    Simple(40, "BASIC_TOKEN_ENDPROC")>>

ProgReturnInt64 ==
  <<Call(10, "PROC", "PROCr", <<Ref(Lvalue("VAR_INTLONG", "L%%"))>>),
    Simple(20, "BASIC_TOKEN_END"),
    Def(30, "PROCr", <<Formal(Lvalue("VAR_INTLONG", "M%%"), TRUE)>>),
    Simple(40, "BASIC_TOKEN_ENDPROC")>>

\* 10 ON ERROR END
\* 20 PROCe: 30 END
\* 40 DEF PROCe: 50 LOCAL J%: 60 LOCAL ERROR: 70 FOR I%="C" TO 1
ProgErrorGlobal ==
  <<OnError(10, "statements"), Simple(10, "BASIC_TOKEN_END"),
    Call(20, "PROC", "PROCe", <<>>), Simple(30, "BASIC_TOKEN_END"),
    Def(40, "PROCe", <<>>),
    Local(50, "variables", <<IntVar("J%")>>),
    Local(60, "BASIC_TOKEN_ERROR", <<>>),
    For(70, IntVar("I%"), TV("STACK_STRTEMP", <<67>>), TV("STACK_INT", 1), NoValue)>>

\* 10 PROCe: 20 END
\* 30 DEF PROCe: 40 ON ERROR LOCAL ENDPROC
\* 50 PROCg(1): 60 ENDPROC
\* 70 DEF PROCg(J%): 80 LOCAL I%: 90 ERROR 1,"X"
ProgErrorLocal ==
  <<Call(10, "PROC", "PROCe", <<>>), Simple(20, "BASIC_TOKEN_END"),
    Def(30, "PROCe", <<>>),
    OnError(40, "BASIC_TOKEN_LOCAL"), Simple(40, "BASIC_TOKEN_ENDPROC"),
    Call(50, "PROC", "PROCg", <<Value(TV("STACK_INT", 1))>>),
    Simple(60, "BASIC_TOKEN_ENDPROC"),
    Def(70, "PROCg", <<Formal(IntVar("J%"), FALSE)>>),
    Local(80, "variables", <<IntVar("I%")>>),
    Error(90, TV("STACK_INT", 1), TV("STACK_STRTEMP", <<88>>))>>

\* 10 PROCe: 20 ON ERROR END: 25 ON ERROR END
\* 30 PROCe: 40 END
\* 50 DEF PROCe: 60 LOCAL ERROR: 70 ON ERROR ENDPROC
\* 80 ON ERROR LOCAL ENDPROC
\* 90 ENDPROC
ProgErrorAfterLocal ==
  <<Call(10, "PROC", "PROCe", <<>>),
    OnError(20, "statements"), Simple(20, "BASIC_TOKEN_END"),
    OnError(25, "statements"), Simple(25, "BASIC_TOKEN_END"),
    Call(30, "PROC", "PROCe", <<>>), Simple(40, "BASIC_TOKEN_END"),
    Def(50, "PROCe", <<>>),
    Local(60, "BASIC_TOKEN_ERROR", <<>>),
    OnError(70, "statements"), Simple(70, "BASIC_TOKEN_ENDPROC"),
    OnError(80, "BASIC_TOKEN_LOCAL"), Simple(80, "BASIC_TOKEN_ENDPROC"),
    Simple(90, "BASIC_TOKEN_ENDPROC")>>

Restore(lineno, what) ==
  [lineno |-> lineno, token |-> "BASIC_TOKEN_RESTORE", what |-> what]

\* 10 PROCp: 20 FOR I%=FNf TO 0: 30 END
\* 40 DEF PROCp: 50 LOCAL ERROR: 60 LOCAL J%: 70 RESTORE LOCAL: 80 ENDPROC
\* 90 DEF FNf: 100 LOCAL J%: 110 RESTORE LOCAL: 120 = ..
ProgRestoreLocal ==
  <<Call(10, "PROC", "PROCp", <<>>),
    Call(20, "FN", "FNf", <<>>),
    For(20, IntVar("I%"), TV("result", 0), TV("STACK_INT", 0), NoValue),
    Simple(30, "BASIC_TOKEN_END"),
    Def(40, "PROCp", <<>>),
    Local(50, "BASIC_TOKEN_ERROR", <<>>),
    Local(60, "variables", <<IntVar("J%")>>),
    Restore(70, "BASIC_TOKEN_LOCAL"),
    Simple(80, "BASIC_TOKEN_ENDPROC"),
    Def(90, "FNf", <<>>),
    Local(100, "variables", <<IntVar("J%")>>),
    Restore(110, "BASIC_TOKEN_LOCAL"),
    Simple(120, "=")>>

\* 10 LOCAL DATA: 20 RESTORE DATA: 30 LOCAL ERROR: 40 RESTORE ERROR
\* 50 RESTORE LOCAL
ProgRestore ==
  <<Local(10, "BASIC_TOKEN_DATA", <<>>), Restore(20, "BASIC_TOKEN_DATA"),
    Local(30, "BASIC_TOKEN_ERROR", <<>>), Restore(40, "BASIC_TOKEN_ERROR"),
    Restore(50, "BASIC_TOKEN_LOCAL")>>

Branch(lineno, token, line) ==
  [lineno |-> lineno, token |-> token, ref |-> "BASIC_TOKEN_XLINENUM",
   line |-> line, dest |-> NIL]

\* the same with an expression for the line number
BranchTo(lineno, token, line) ==
  [lineno |-> lineno, token |-> token, ref |-> "expression", line |-> line,
   dest |-> NIL]

\* 10 FOR I%=1 TO MaxLimit: 20 GOSUB 100: 30 GOTO 50: 40 END: 50 NEXT
\* 60 GOSUB 90+10: 70 GOTO 80.5: 80 END
\* 100 REPEAT: RETURN
ProgBranch ==
  <<For(10, IntVar("I%"), TV("STACK_INT", 1), TV("STACK_INT", MaxLimit), NoValue),
    Branch(20, "BASIC_TOKEN_GOSUB", 100),
    Branch(30, "BASIC_TOKEN_GOTO", 50),
    Simple(40, "BASIC_TOKEN_END"),
    Next(50, <<>>),
    BranchTo(60, "BASIC_TOKEN_GOSUB", TV("STACK_INT", 100)),
    BranchTo(70, "BASIC_TOKEN_GOTO", TV("STACK_FLOAT", 161)),
    Simple(80, "BASIC_TOKEN_END"),
    Simple(100, "BASIC_TOKEN_REPEAT"),
    Simple(100, "BASIC_TOKEN_RETURN")>>

\* 10 ON ERROR RETURN
\* 20 GOSUB 30: 40 END, and
\* 10 GOTO 70000: 20 END: 30 END
ProgBranchMissing ==
  <<OnError(10, "statements"), Simple(10, "BASIC_TOKEN_RETURN"),
    Branch(20, "BASIC_TOKEN_GOSUB", 30), Simple(40, "BASIC_TOKEN_END")>>

ProgBranchRange ==
  <<BranchTo(10, "BASIC_TOKEN_GOTO", TV("STACK_INT", 70000)),
    Simple(20, "BASIC_TOKEN_END"), Simple(30, "BASIC_TOKEN_END")>>

Case(lineno) ==
  [lineno |-> lineno, token |-> "BASIC_TOKEN_XCASE", of |-> TRUE,
   table |-> NoTable]

When(lineno, values) ==
  [lineno |-> lineno, token |-> "BASIC_TOKEN_XWHEN", values |-> values,
   dest |-> NIL]

Otherwise(lineno) ==
  [lineno |-> lineno, token |-> "BASIC_TOKEN_XOTHERWISE", dest |-> NIL]

\* 10 FOR I%=1 TO MaxLimit
\* 20 CASE .. OF
\* 30 WHEN 1, 2.0: CASE .. OF
\* 40   WHEN 1: ON ERROR OFF
\* 50   OTHERWISE ON ERROR OFF
\* 60   ENDCASE
\* 70 WHEN 3
\* 75   ON ERROR OFF
\* 80 ENDCASE
\* 90 NEXT: 100 END
ProgCase ==
  <<For(10, IntVar("I%"), TV("STACK_INT", 1), TV("STACK_INT", MaxLimit), NoValue),
    Case(20),
    When(30, <<TV("STACK_INT", 1), TV("STACK_FLOAT", 4)>>), Case(30),
    When(40, <<TV("STACK_INT", 1)>>), OnError(40, "BASIC_TOKEN_OFF"),
    Otherwise(50), OnError(50, "BASIC_TOKEN_OFF"),
    Simple(60, "BASIC_TOKEN_ENDCASE"),
    When(70, <<TV("STACK_INT", 3)>>),
    OnError(75, "BASIC_TOKEN_OFF"),
    Simple(80, "BASIC_TOKEN_ENDCASE"),
    Next(90, <<>>),
    Simple(100, "BASIC_TOKEN_END")>>

\* 10 CASE .. OF
\* 20 WHEN "D", T$: ON ERROR OFF
\* 30 WHEN S$: END
\* 40 OTHERWISE END
\* 50 ENDCASE
\* 60 END
ProgCaseString ==
  <<Case(10),
    When(20, <<TV("STACK_STRTEMP", <<68>>), TV("STACK_STRING", "T$")>>),
    OnError(20, "BASIC_TOKEN_OFF"),
    When(30, <<TV("STACK_STRING", "S$")>>), Simple(30, "BASIC_TOKEN_END"),
    Otherwise(40), Simple(40, "BASIC_TOKEN_END"),
    Simple(50, "BASIC_TOKEN_ENDCASE"),
    Simple(60, "BASIC_TOKEN_END")>>

\* 10 GOTO 40
\* 20 CASE .. OF
\* 30 WHEN 1
\* 40   CASE .. OF
\* 50   WHEN 3: ON ERROR OFF
\* 60   ENDCASE
\* 70 WHEN 3: ON ERROR OFF
\* 80 ENDCASE
\* 90 GOTO 20
ProgCaseJump ==
  <<Branch(10, "BASIC_TOKEN_GOTO", 40),
    Case(20),
    When(30, <<TV("STACK_INT", 1)>>),
    Case(40),
    When(50, <<TV("STACK_INT", 3)>>), OnError(50, "BASIC_TOKEN_OFF"),
    Simple(60, "BASIC_TOKEN_ENDCASE"),
    When(70, <<TV("STACK_INT", 3)>>), OnError(70, "BASIC_TOKEN_OFF"),
    Simple(80, "BASIC_TOKEN_ENDCASE"),
    Branch(90, "BASIC_TOKEN_GOTO", 20)>>

\* 10 GOTO 40
\* 20 CASE .. OF
\* 30 WHEN 1
\* 40   CASE .. OF
\* 50   WHEN 3: ON ERROR OFF
\* 60   ENDCASE
\* 65   ON ERROR OFF
\* 70 WHEN 3: ON ERROR OFF
\* 80 ENDCASE
\* 90 GOTO 20
ProgCaseBody ==
  <<Branch(10, "BASIC_TOKEN_GOTO", 40),
    Case(20),
    When(30, <<TV("STACK_INT", 1)>>),
    Case(40),
    When(50, <<TV("STACK_INT", 3)>>), OnError(50, "BASIC_TOKEN_OFF"),
    Simple(60, "BASIC_TOKEN_ENDCASE"),
    OnError(65, "BASIC_TOKEN_OFF"),
    When(70, <<TV("STACK_INT", 3)>>), OnError(70, "BASIC_TOKEN_OFF"),
    Simple(80, "BASIC_TOKEN_ENDCASE"),
    Branch(90, "BASIC_TOKEN_GOTO", 20)>>

\* the pairs of operands of SWAP that the programs try
SwapPairs ==
  <<<<IntVar("I%"), IntVar("J%")>>,
    <<IntVar("J%"), Lvalue("VAR_FLOAT", "F")>>,
    <<Lvalue("VAR_FLOAT", "F"), Lvalue("VAR_FLOAT", "G")>>,
    <<Lvalue("VAR_INTBYTEPTR", 0), Lvalue("VAR_INTBYTEPTR", 1)>>,
    <<Lvalue("VAR_INTBYTEPTR", 0), IntVar("J%")>>,
    <<Lvalue("VAR_INTWORDPTR", 4), Lvalue("VAR_FLOATPTR", 8)>>,
    <<Lvalue("VAR_INTWORDPTR", 0), IntVar("J%")>>,
    <<Lvalue("VAR_UINT8", "B&"), Lvalue("VAR_UINT8", "C&")>>,
    <<Lvalue("VAR_INTLONG", "L%%"), Lvalue("VAR_INTLONG", "M%%")>>,
    <<IntVar("J%"), Lvalue("VAR_UINT8", "B&")>>,
    <<Lvalue("VAR_STRINGDOL", "S$"), Lvalue("VAR_STRINGDOL", "T$")>>,
    <<Lvalue("VAR_DOLSTRPTR", 16), Lvalue("VAR_DOLSTRPTR", 20)>>,
    <<Lvalue("VAR_STRINGDOL", "S$"), Lvalue("VAR_DOLSTRPTR", 16)>>,
    <<Lvalue("VAR_DOLSTRPTR", 20), Lvalue("VAR_STRINGDOL", "T$")>>,
    <<Lvalue("VAR_INTARRAY", "A%()"), Lvalue("VAR_INTARRAY", "B%()")>>,
    <<Lvalue("VAR_INTARRAY", "A%()"), Lvalue("VAR_INT64ARRAY", "A%%()")>>,
    <<IntVar("J%"), Lvalue("VAR_STRINGDOL", "S$")>>,
    <<Lvalue("VAR_STRINGDOL", "S$"), IntVar("J%")>>>>

Swap(lineno, pair) ==
  [lineno |-> lineno, token |-> "BASIC_TOKEN_SWAP", first |-> pair[1],
   second |-> pair[2]]

\* 10 SWAP a,b: 20 SWAP a,b: 30 END
ProgSwap(pair) == <<Swap(10, pair), Swap(20, pair), Simple(30, "BASIC_TOKEN_END")>>

If(lineno, block) ==
  [lineno |-> lineno, token |-> "BASIC_TOKEN_XIF", block |-> block,
   thendest |-> NIL, elsedest |-> NIL]

Else(lineno, token) == [lineno |-> lineno, token |-> token, dest |-> NIL]

\* 10 FOR I%=1 TO 2
\* 20 IF .. THEN
\* 30   IF .. THEN
\* 40     ON ERROR OFF
\* 50   ELSE ON ERROR OFF
\* 60   ENDIF
\* 70 ELSE
\* 80   IF .. THEN ON ERROR OFF ELSE ON ERROR OFF
\* 90 ENDIF
\* 100 NEXT: 110 END
ProgIf ==
  <<For(10, IntVar("I%"), TV("STACK_INT", 1), TV("STACK_INT", 2), NoValue),
    If(20, TRUE),
    If(30, TRUE),
    OnError(40, "BASIC_TOKEN_OFF"),
    Else(50, "BASIC_TOKEN_XLHELSE"), OnError(50, "BASIC_TOKEN_OFF"),
    Simple(60, "BASIC_TOKEN_ENDIF"),
    Else(70, "BASIC_TOKEN_XLHELSE"),
    If(80, FALSE), OnError(80, "BASIC_TOKEN_OFF"),
    Else(80, "BASIC_TOKEN_XELSE"), OnError(80, "BASIC_TOKEN_OFF"),
    Simple(90, "BASIC_TOKEN_ENDIF"),
    Next(100, <<>>),
    Simple(110, "BASIC_TOKEN_END")>>

\* A block IF with no ELSE and no ENDIF after it, in a loop:
\* 10 FOR I%=1 TO 2: 20 IF .. THEN: 30 ON ERROR OFF: 40 NEXT: 50 END
ProgIfOpen ==
  <<For(10, IntVar("I%"), TV("STACK_INT", 1), TV("STACK_INT", 2), NoValue),
    If(20, TRUE),
    OnError(30, "BASIC_TOKEN_OFF"),
    Next(40, <<>>),
    Simple(50, "BASIC_TOKEN_END")>>

\* 10 IF .. THEN
\* 20   IF .. THEN
\* 30     ON ERROR OFF
\* 40   ELSE IF .. THEN
\* 50     ON ERROR OFF
\* 60   ENDIF
\* 70   ENDIF
\* 80 ELSE
\* 90   ON ERROR OFF
\* 100 ENDIF
\* 110 END
ProgIfCascade ==
  <<If(10, TRUE),
    If(20, TRUE),
    OnError(30, "BASIC_TOKEN_OFF"),
    Else(40, "BASIC_TOKEN_XLHELSE"), If(40, TRUE),
    OnError(50, "BASIC_TOKEN_OFF"),
    Simple(60, "BASIC_TOKEN_ENDIF"),
    Simple(70, "BASIC_TOKEN_ENDIF"),
    Else(80, "BASIC_TOKEN_XLHELSE"),
    OnError(90, "BASIC_TOKEN_OFF"),
    Simple(100, "BASIC_TOKEN_ENDIF"),
    Simple(110, "BASIC_TOKEN_END")>>

\* The same cascade in the ELSE part:
\* 10 IF .. THEN: 20 ON ERROR OFF: 30 ELSE: 40 IF .. THEN
\* 50 ELSE IF .. THEN: 60 ENDIF: 70 ENDIF: 80 ENDIF: 90 END
ProgIfElseCascade ==
  <<If(10, TRUE),
    OnError(20, "BASIC_TOKEN_OFF"),
    Else(30, "BASIC_TOKEN_XLHELSE"),
    If(40, TRUE),
    Else(50, "BASIC_TOKEN_XLHELSE"), If(50, TRUE),
    Simple(60, "BASIC_TOKEN_ENDIF"),
    Simple(70, "BASIC_TOKEN_ENDIF"),
    Simple(80, "BASIC_TOKEN_ENDIF"),
    Simple(90, "BASIC_TOKEN_END")>>

\* A block IF that starts on the line of an ENDIF:
\* 10 IF .. THEN: 20 IF .. THEN: 30 ENDIF: IF .. THEN: 40 ENDIF
\* 50 ELSE: 60 ON ERROR OFF: 70 ENDIF: 80 END
ProgIfAfterEndif ==
  <<If(10, TRUE),
    If(20, TRUE),
    Simple(30, "BASIC_TOKEN_ENDIF"), If(30, TRUE),
    Simple(40, "BASIC_TOKEN_ENDIF"),
    Else(50, "BASIC_TOKEN_XLHELSE"),
    OnError(60, "BASIC_TOKEN_OFF"),
    Simple(70, "BASIC_TOKEN_ENDIF"),
    Simple(80, "BASIC_TOKEN_END")>>

\* the control variables and the STEP values of the FOR statements that the
\* programs try: zero as an integer and as a float, a half, and minus one
ForSteps ==
  <<<<IntVar("I%"), TV("STACK_INT", 0)>>,
    <<Lvalue("VAR_UINT8", "B&"), TV("STACK_INT", 0)>>,
    <<Lvalue("VAR_INTLONG", "L%%"), TV("STACK_INT64", 0)>>,
    <<Lvalue("VAR_FLOAT", "F"), TV("STACK_FLOAT", 0)>>,
    <<Lvalue("VAR_FLOAT", "F"), TV("STACK_INT", 0)>>,
    <<IntVar("I%"), TV("STACK_FLOAT", 0)>>,
    <<IntVar("I%"), TV("STACK_FLOAT", 1)>>,
    <<Lvalue("VAR_FLOAT", "F"), TV("STACK_FLOAT", 1)>>,
    <<IntVar("I%"), TV("STACK_INT", -1)>>>>

\* 10 FOR v=1 TO 2 STEP s: 20 NEXT: 30 END
ProgForStep(vs) ==
  <<For(10, vs[1], TV("STACK_INT", 1), TV("STACK_INT", 2), vs[2]),
    Next(20, <<>>), Simple(30, "BASIC_TOKEN_END")>>

\* 10 ON ERROR GOTO 20
\* 20 PROCp: 30 END
\* 40 DEF PROCp(J%): 50 END
ProgCallNotEnough ==
  <<OnError(10, "statements"), Branch(10, "BASIC_TOKEN_GOTO", 20),
    Call(20, "PROC", "PROCp", <<>>), Simple(30, "BASIC_TOKEN_END"),
    Def(40, "PROCp", <<Formal(IntVar("J%"), FALSE)>>),
    Simple(50, "BASIC_TOKEN_END")>>

\* 10 ON ERROR GOTO 20
\* 20 PROCq(1): 30 END
\* 40 DEF PROCq: 50 ENDPROC
ProgCallTooMany ==
  <<OnError(10, "statements"), Branch(10, "BASIC_TOKEN_GOTO", 20),
    Call(20, "PROC", "PROCq", <<Value(TV("STACK_INT", 1))>>),
    Simple(30, "BASIC_TOKEN_END"),
    Def(40, "PROCq", <<>>),
    Simple(50, "BASIC_TOKEN_ENDPROC")>>

Dim(lineno, items) == [lineno |-> lineno, token |-> "BASIC_TOKEN_DIM", items |-> items]

\* an item of DIM that names an array, and one that names a block of bytes
DimArray(name, type, bounds) ==
  [name |-> name, type |-> type, offheap |-> FALSE, bounds |-> bounds,
   size |-> 0, indref |-> FALSE, offset |-> 0, islocal |-> FALSE]

DimBlock(name, type, size) ==
  [name |-> name, type |-> type, offheap |-> FALSE, bounds |-> <<>>,
   size |-> size, indref |-> FALSE, offset |-> 0, islocal |-> FALSE]

\* 10 DIM C%(2), T$(1,1): 20 DIM C%(1): 30 END
ProgDimTwice ==
  <<Dim(10, <<DimArray("C%()", "VAR_INTARRAY", <<2>>),
              DimArray("T$()", "VAR_STRARRAY", <<1, 1>>)>>),
    Dim(20, <<DimArray("C%()", "VAR_INTARRAY", <<1>>)>>),
    Simple(30, "BASIC_TOKEN_END")>>

\* 10 DIM N% 3, A%(3): 20 END, where A%() is an array already
ProgDimExisting ==
  <<Dim(10, <<DimBlock("N%", "VAR_INTWORD", 3),
              DimArray("A%()", "VAR_INTARRAY", <<3>>)>>),
    Simple(20, "BASIC_TOKEN_END")>>

\* 10 ON ERROR GOTO 30
\* 20 DIM D(-1): 30 DIM D(1): 40 END
ProgDimRetry ==
  <<OnError(10, "statements"), Branch(10, "BASIC_TOKEN_GOTO", 30),
    Dim(20, <<DimArray("D()", "VAR_FLOATARRAY", <<-1>>)>>),
    Dim(30, <<DimArray("D()", "VAR_FLOATARRAY", <<1>>)>>),
    Simple(40, "BASIC_TOKEN_END")>>

\* 10 PROCd: 20 END
\* 30 DEF PROCd: 40 LOCAL B%(): 50 DIM B%(1): 60 DIM B%(1): 70 ENDPROC
ProgDimLocal ==
  <<Call(10, "PROC", "PROCd", <<>>), Simple(20, "BASIC_TOKEN_END"),
    Def(30, "PROCd", <<>>),
    Local(40, "variables", <<Lvalue("VAR_INTARRAY", "B%()")>>),
    Dim(50, <<DimArray("B%()", "VAR_INTARRAY", <<1>>)>>),
    Dim(60, <<DimArray("B%()", "VAR_INTARRAY", <<1>>)>>),
    Simple(70, "BASIC_TOKEN_ENDPROC")>>

\* a line number in place of a statement, after THEN or ELSE
LineNumber(lineno, line) == Branch(lineno, "linenum", line)

\* 10 FOR I%=FNf TO 0: 20 END
\* 30 DEF FNf: 40 ON ERROR OFF: IF .. THEN 40
\* 50 REPEAT: 60 UNTIL ..: 70 = ..
ProgEscapeFn ==
  <<Call(10, "FN", "FNf", <<>>),
    For(10, IntVar("I%"), TV("result", 0), TV("STACK_INT", 0), NoValue),
    Simple(20, "BASIC_TOKEN_END"),
    Def(30, "FNf", <<>>),
    OnError(40, "BASIC_TOKEN_OFF"), If(40, FALSE), LineNumber(40, 40),
    Simple(50, "BASIC_TOKEN_REPEAT"), Simple(60, "BASIC_TOKEN_UNTIL"),
    Simple(70, "=")>>

\* 10 IF .. THEN 10: 20 IF .. THEN 10 ELSE 30: 30 END
ProgEscapeMain ==
  <<If(10, FALSE), LineNumber(10, 10),
    If(20, FALSE), LineNumber(20, 10), Else(20, "BASIC_TOKEN_XELSE"),
    LineNumber(20, 30),
    Simple(30, "BASIC_TOKEN_END")>>

\* RESTORE <line number>, RESTORE <expression>, RESTORE +<offset> and RESTORE
RestoreLine(lineno, line) ==
  [lineno |-> lineno, token |-> "BASIC_TOKEN_RESTORE", what |-> "linenum",
   ref |-> "BASIC_TOKEN_XLINENUM", line |-> line, dest |-> NIL]

RestoreTo(lineno, what, line) ==
  [lineno |-> lineno, token |-> "BASIC_TOKEN_RESTORE", what |-> what,
   ref |-> "expression", line |-> line, dest |-> NIL]

\* 10 ON ERROR GOTO 20
\* 20 <a reference to line 35>: 30 END: 40 DATA: 50 END
\* for each statement that refers to a line by its number
LineSites ==
  << <<Branch(20, "BASIC_TOKEN_GOTO", 35)>>,
     <<Branch(20, "BASIC_TOKEN_GOSUB", 35)>>,
     <<RestoreLine(20, 35)>>,
     <<If(20, FALSE), LineNumber(20, 35)>>,
     <<If(20, FALSE), LineNumber(20, 30), Else(20, "BASIC_TOKEN_XELSE"),
       LineNumber(20, 35)>>,
     <<RestoreTo(20, "expression", 35)>> >>

ProgLineMissing(site) ==
  <<OnError(10, "statements"), Branch(10, "BASIC_TOKEN_GOTO", 20)>>
    \o site
    \o <<Simple(30, "BASIC_TOKEN_END"), Simple(40, "BASIC_TOKEN_DATA"),
         Simple(50, "BASIC_TOKEN_END")>>

\* 10 FOR I%=1 TO MaxLimit: 15 RESTORE 40: NEXT
\* 20 RESTORE: RESTORE +1: RESTORE +3
\* 30 RESTORE 30+10: 35 END: 40 DATA
ProgRestoreData ==
  <<For(10, IntVar("I%"), TV("STACK_INT", 1), TV("STACK_INT", MaxLimit), NoValue),
    RestoreLine(15, 40), Next(15, <<>>),
    RestoreTo(20, "none", 0), RestoreTo(20, "+", 1), RestoreTo(20, "+", 3),
    RestoreTo(30, "expression", 40), Simple(35, "BASIC_TOKEN_END"),
    Simple(40, "BASIC_TOKEN_DATA")>>

\* 10 ON ERROR END: 20 PROCp: 30 FOR I%=FNf TO 0: 40 PROCq: 45 PROCr: 50 END
\* 60 DEF PROCp: 70 LOCAL ERROR: 80 ON ERROR LOCAL END: 90 ON ERROR END
\* 100 ENDPROC
\* 110 DEF FNf: 120 ON ERROR LOCAL END: 130 LOCAL J%: 135 PROCp: 140 = ..
\* 150 DEF PROCq: 160 ON ERROR END: 170 LOCAL ERROR: 180 ENDPROC
\* 190 DEF PROCr: 200 ON ERROR LOCAL END: 210 RESTORE ERROR: 220 ON ERROR OFF
\* 230 ENDPROC
ProgErrorReturn ==
  <<OnError(10, "statements"), Simple(10, "BASIC_TOKEN_END"),
    Call(20, "PROC", "PROCp", <<>>),
    Call(30, "FN", "FNf", <<>>),
    For(30, IntVar("I%"), TV("result", 0), TV("STACK_INT", 0), NoValue),
    Call(40, "PROC", "PROCq", <<>>), Call(45, "PROC", "PROCr", <<>>),
    Simple(50, "BASIC_TOKEN_END"),
    Def(60, "PROCp", <<>>),
    Local(70, "BASIC_TOKEN_ERROR", <<>>),
    OnError(80, "BASIC_TOKEN_LOCAL"), Simple(80, "BASIC_TOKEN_END"),
    OnError(90, "statements"), Simple(90, "BASIC_TOKEN_END"),
    Simple(100, "BASIC_TOKEN_ENDPROC"),
    Def(110, "FNf", <<>>),
    OnError(120, "BASIC_TOKEN_LOCAL"), Simple(120, "BASIC_TOKEN_END"),
    Local(130, "variables", <<IntVar("J%")>>),
    Call(135, "PROC", "PROCp", <<>>),
    Simple(140, "="),
    Def(150, "PROCq", <<>>),
    OnError(160, "statements"), Simple(160, "BASIC_TOKEN_END"),
    Local(170, "BASIC_TOKEN_ERROR", <<>>),
    Simple(180, "BASIC_TOKEN_ENDPROC"),
    Def(190, "PROCr", <<>>),
    OnError(200, "BASIC_TOKEN_LOCAL"), Simple(200, "BASIC_TOKEN_END"),
    Restore(210, "BASIC_TOKEN_ERROR"),
    OnError(220, "BASIC_TOKEN_OFF"),
    Simple(230, "BASIC_TOKEN_ENDPROC")>>

Data(lineno, items) ==
  [lineno |-> lineno, token |-> "BASIC_TOKEN_DATA", items |-> items]

Read(lineno, dests) ==
  [lineno |-> lineno, token |-> "BASIC_TOKEN_READ", dests |-> dests]

\* 10 READ I%: 20 LOCAL DATA: 30 READ I%, J%: 40 RESTORE 110
\* 50 READ S$: 60 RESTORE DATA: 70 READ I%: 80 RESTORE DATA: 90 END
\* 100 DATA 1, 2, 3: 110 DATA "AB", 4
ProgReadLocal ==
  <<Read(10, <<IntVar("I%")>>), Local(20, "BASIC_TOKEN_DATA", <<>>),
    Read(30, <<IntVar("I%"), IntVar("J%")>>), RestoreLine(40, 110),
    Read(50, <<Lvalue("VAR_STRINGDOL", "S$")>>),
    Restore(60, "BASIC_TOKEN_DATA"), Read(70, <<IntVar("I%")>>),
    Restore(80, "BASIC_TOKEN_DATA"), Simple(90, "BASIC_TOKEN_END"),
    Data(100, <<TV("STACK_INT", 1), TV("STACK_INT", 2), TV("STACK_INT", 3)>>),
    Data(110, <<TV("STACK_STRTEMP", <<65, 66>>), TV("STACK_INT", 4)>>)>>

\* 10 LOCAL DATA: 20 RESTORE 60: 30 RESTORE DATA: 40 READ I%: 50 DATA 5
\* 60 END
ProgReadPastData ==
  <<Local(10, "BASIC_TOKEN_DATA", <<>>), RestoreLine(20, 60),
    Restore(30, "BASIC_TOKEN_DATA"), Read(40, <<IntVar("I%")>>),
    Data(50, <<TV("STACK_INT", 5)>>), Simple(60, "BASIC_TOKEN_END")>>

\* 10 RESTORE 60: 20 LOCAL DATA: 30 RESTORE 50: 40 RESTORE DATA: 45 READ I%
\* 50 DATA 5: 60 END
ProgReadOutOfData ==
  <<RestoreLine(10, 60), Local(20, "BASIC_TOKEN_DATA", <<>>),
    RestoreLine(30, 50), Restore(40, "BASIC_TOKEN_DATA"),
    Read(45, <<IntVar("I%")>>),
    Data(50, <<TV("STACK_INT", 5)>>), Simple(60, "BASIC_TOKEN_END")>>

\* 10 GOSUB 100: 20 RETURN: 30 END
\* 100 WHILE ..: 110 GOSUB 200: 120 RETURN: 130 ENDWHILE: 140 RETURN
\* 200 REPEAT: PROCp
\* 300 DEF PROCp: LOCAL J%: RETURN
ProgGosub ==
  <<Branch(10, "BASIC_TOKEN_GOSUB", 100), Simple(20, "BASIC_TOKEN_RETURN"),
    Simple(30, "BASIC_TOKEN_END"),
    While(100), Branch(110, "BASIC_TOKEN_GOSUB", 200),
    Simple(120, "BASIC_TOKEN_RETURN"), Simple(130, "BASIC_TOKEN_ENDWHILE"),
    Simple(140, "BASIC_TOKEN_RETURN"),
    Simple(200, "BASIC_TOKEN_REPEAT"), Call(200, "PROC", "PROCp", <<>>),
    Def(300, "PROCp", <<>>), Local(300, "variables", <<IntVar("J%")>>),
    Simple(300, "BASIC_TOKEN_RETURN")>>

\* 10 GOSUB 100: 20 END
\* 100 FOR I%=FNf TO 0: 110 RETURN
\* 200 DEF FNf: RETURN
ProgGosubFn ==
  <<Branch(10, "BASIC_TOKEN_GOSUB", 100), Simple(20, "BASIC_TOKEN_END"),
    Call(100, "FN", "FNf", <<>>),
    For(100, IntVar("I%"), TV("result", 0), TV("STACK_INT", 0), NoValue),
    Simple(110, "BASIC_TOKEN_RETURN"),
    Def(200, "FNf", <<>>), Simple(200, "BASIC_TOKEN_RETURN")>>

Clear(lineno, what, array) ==
  [lineno |-> lineno, token |-> "BASIC_TOKEN_CLEAR", what |-> what, array |-> array]

Run(lineno, line) == [lineno |-> lineno, token |-> "BASIC_TOKEN_RUN", line |-> line]

\* 10 DIM C%(1): 20 FOR I%=3 TO 5: 30 CLEAR: 40 END
ProgClear ==
  <<Dim(10, <<DimArray("C%()", "VAR_INTARRAY", <<1>>)>>),
    For(20, IntVar("I%"), TV("STACK_INT", 3), TV("STACK_INT", 5), NoValue),
    Clear(30, "", ""), Simple(40, "BASIC_TOKEN_END")>>

\* 10 ON ERROR GOTO 60: 20 DIM HIMEM C%(1), HIMEM D%(1): 30 CLEAR HIMEM C%()
\* 40 CLEAR HIMEM: 50 CLEAR HIMEM A%(): 60 END
ProgClearHimem ==
  <<OnError(10, "statements"), Branch(10, "BASIC_TOKEN_GOTO", 60),
    Dim(20, <<[DimArray("C%()", "VAR_INTARRAY", <<1>>) EXCEPT !.offheap = TRUE],
              [DimArray("D%()", "VAR_INTARRAY", <<1>>) EXCEPT !.offheap = TRUE]>>),
    Clear(30, "BASIC_TOKEN_HIMEM", "C%()"), Clear(40, "BASIC_TOKEN_HIMEM", ""),
    Clear(50, "BASIC_TOKEN_HIMEM", "A%()"), Simple(60, "BASIC_TOKEN_END")>>

\* 10 ON ERROR GOTO 40: 20 DIM C%(1): 30 RUN <line>: 40 END
ProgRun(line) ==
  <<OnError(10, "statements"), Branch(10, "BASIC_TOKEN_GOTO", 40),
    Dim(20, <<DimArray("C%()", "VAR_INTARRAY", <<1>>)>>),
    Run(30, line), Simple(40, "BASIC_TOKEN_END")>>

\* the control variables of the FOR loops that a NEXT with a variable ends
NextVars ==
  <<IntVar("I%"), Lvalue("VAR_INTLONG", "L%%"), Lvalue("VAR_FLOAT", "F")>>

\* what is put on the stack above the FOR block before the NEXT is met: the
\* block of a GOSUB, of an inner FOR, of both with the GOSUB on top, of both
\* with the FOR on top
NextShapes ==
  <<<<Branch(20, "BASIC_TOKEN_GOSUB", 30)>>,
    <<For(20, IntVar("J%"), TV("STACK_INT", 1), TV("STACK_INT", 2), NoValue)>>,
    <<For(20, IntVar("J%"), TV("STACK_INT", 1), TV("STACK_INT", 2), NoValue),
      Branch(25, "BASIC_TOKEN_GOSUB", 30)>>,
    <<Branch(20, "BASIC_TOKEN_GOSUB", 25),
      For(25, IntVar("J%"), TV("STACK_INT", 1), TV("STACK_INT", 2), NoValue)>> >>

\* 10 FOR v=1 TO 2: 20 GOSUB 30 (FOR J%=1 TO 2): 30 NEXT v: 40 END
ProgNextOver(forvar, above) ==
  <<For(10, forvar, TV("STACK_INT", 1), TV("STACK_INT", 2), NoValue)>>
    \o above
    \o <<Next(30, <<forvar>>), Simple(40, "BASIC_TOKEN_END")>>

\* a loop and the statement that closes it
CloserLoops ==
  <<[open |-> Simple(10, "BASIC_TOKEN_REPEAT"),
     close |-> Simple(60, "BASIC_TOKEN_UNTIL")],
    [open |-> While(10), close |-> Simple(60, "BASIC_TOKEN_ENDWHILE")],
    [open |-> For(10, IntVar("I%"), TV("STACK_INT", 1), TV("STACK_INT", 2), NoValue),
     close |-> Next(60, <<>>)]>>

\* PROCp, FOR J%=FNp TO 0 and GOSUB 40
CloserCalls ==
  <<<<Call(20, "PROC", "PROCp", <<>>)>>,
    <<Call(20, "FN", "FNp", <<>>),
      For(20, IntVar("J%"), TV("result", 0), TV("STACK_INT", 0), NoValue)>>,
    <<Branch(20, "BASIC_TOKEN_GOSUB", 40)>> >>

\* 10 REPEAT: 20 PROCp: 30 END
\* 40 DEF PROCp: 50 LOCAL K%: 60 UNTIL ..: 70 END
\* with or without line 10, and the same for the other loops and calls
ProgCloser(loop, call, isopen) ==
  (IF isopen THEN <<loop.open>> ELSE <<>>)
    \o call
    \o <<Simple(30, "BASIC_TOKEN_END"),
         Def(40, IF call[1].token = "BASIC_TOKEN_GOSUB" THEN "PROCp"
                 ELSE call[1].name, <<>>)>>
    \o (IF call[1].token = "BASIC_TOKEN_GOSUB" THEN <<>>
        ELSE <<Local(50, "variables", <<IntVar("K%")>>)>>)
    \o <<loop.close, Simple(70, "BASIC_TOKEN_END")>>

\* which PROC the program calls first
DefOrders == <<"PROCa", "PROCb">>

\* 10 PROCa or PROCb: 20 PROCa: 30 PROCb: 40 PROCa: 50 END
\* 60 DEF PROCa: ENDPROC
\* 70 DEF PROCa: ENDPROC
\* 80 DEF PROCb: ENDPROC
ProgTwoDefs(first) ==
  <<Call(10, "PROC", first, <<>>), Call(20, "PROC", "PROCa", <<>>),
    Call(30, "PROC", "PROCb", <<>>), Call(40, "PROC", "PROCa", <<>>),
    Simple(50, "BASIC_TOKEN_END"),
    Def(60, "PROCa", <<>>), Simple(60, "BASIC_TOKEN_ENDPROC"),
    Def(70, "PROCa", <<>>), Simple(70, "BASIC_TOKEN_ENDPROC"),
    Def(80, "PROCb", <<>>), Simple(80, "BASIC_TOKEN_ENDPROC")>>

\* 10 ON ERROR RESTORE 40
\* 20 READ I%: 30 END
\* 40 DATA 1/0
ProgReadTrapped ==
  <<OnError(10, "statements"), RestoreLine(10, 40),
    Read(20, <<IntVar("I%")>>), Simple(30, "BASIC_TOKEN_END"),
    Data(40, <<TV("error", "ERR_DIVZERO")>>)>>

\* 10 ON ERROR
\* 20 PROCp: 30 END
\* 40 DEF PROCp
ProgDefNoBody ==
  <<OnError(10, "statements"), Call(20, "PROC", "PROCp", <<>>),
    Simple(30, "BASIC_TOKEN_END"), Def(40, "PROCp", <<>>)>>

\* the FOR loops that reach the largest int32 value:
\* FOR I%=2147483646 TO 2147483647, FOR I%=2147483640 TO 2147483645 STEP 10,
\* FOR I%=2147483645 TO 2147483646
ForLimits ==
  <<[initial |-> 2147483646, limit |-> 2147483647, step |-> NoValue],
    [initial |-> 2147483640, limit |-> 2147483645, step |-> TV("STACK_INT", 10)],
    [initial |-> 2147483645, limit |-> 2147483646, step |-> NoValue]>>

\* 10 FOR I%=a TO b STEP s: 20 NEXT: 30 END
ProgForLimit(f) ==
  <<For(10, IntVar("I%"), TV("STACK_INT", f.initial), TV("STACK_INT", f.limit),
        f.step),
    Next(20, <<>>), Simple(30, "BASIC_TOKEN_END")>>

\* 10 REPEAT: 20 WHILE ..: 30 WHILE ..: 40 ENDWHILE: 50 ENDWHILE: 60 UNTIL ..
\* 70 END
ProgWhileNested ==
  <<Simple(10, "BASIC_TOKEN_REPEAT"), While(20), While(30),
    Simple(40, "BASIC_TOKEN_ENDWHILE"), Simple(50, "BASIC_TOKEN_ENDWHILE"),
    Simple(60, "BASIC_TOKEN_UNTIL"), Simple(70, "BASIC_TOKEN_END")>>

\* 10 REPEAT: 20 WHILE ..: 30 WHILE ..: 40 ENDWHILE: 50 UNTIL ..: 60 END
ProgWhileMissing ==
  <<Simple(10, "BASIC_TOKEN_REPEAT"), While(20), While(30),
    Simple(40, "BASIC_TOKEN_ENDWHILE"), Simple(50, "BASIC_TOKEN_UNTIL"),
    Simple(60, "BASIC_TOKEN_END")>>

\* 10 CASE .. OF
\* 20 WHEN 7, 1: ON ERROR OFF       (7 a 64-bit integer)
\* 30 WHEN 1.0, 3, 2.0: ON ERROR OFF
\* 40 WHEN 3: ON ERROR OFF
\* 50 WHEN "D", S$: ON ERROR OFF
\* 60 ENDCASE: 70 END
ProgCaseFirst ==
  <<Case(10),
    When(20, <<TV("STACK_INT64", 7), TV("STACK_INT", 1)>>),
    OnError(20, "BASIC_TOKEN_OFF"),
    When(30, <<TV("STACK_FLOAT", 2), TV("STACK_INT", 3), TV("STACK_FLOAT", 4)>>),
    OnError(30, "BASIC_TOKEN_OFF"),
    When(40, <<TV("STACK_INT", 3)>>), OnError(40, "BASIC_TOKEN_OFF"),
    When(50, <<TV("STACK_STRTEMP", <<68>>), TV("STACK_STRING", "S$")>>),
    OnError(50, "BASIC_TOKEN_OFF"),
    Simple(60, "BASIC_TOKEN_ENDCASE"), Simple(70, "BASIC_TOKEN_END")>>

\* 10 FOR v=a TO b STEP s: 20 ON ERROR OFF: 30 NEXT: 40 END
ProgForBody(forvar, initial, limit, step) ==
  <<For(10, forvar, initial, limit, step), OnError(20, "BASIC_TOKEN_OFF"),
    Next(30, <<>>), Simple(40, "BASIC_TOKEN_END")>>

\* FOR I%=1 TO 3
ProgFor123 ==
  ProgForBody(IntVar("I%"), TV("STACK_INT", 1), TV("STACK_INT", 3), NoValue)

Programs ==
  <<ProgLoops, ProgEndwhileRepeat, ProgEndwhileFor, ProgProc,
    ProgLocalInt64Array, ProgReturnUint8, ProgReturnInt64, ProgErrorGlobal,
    ProgErrorLocal, ProgBranch, ProgBranchMissing, ProgBranchRange,
    ProgCase, ProgCaseString, ProgCaseJump, ProgIf, ProgIfOpen,
    ProgCaseBody, ProgErrorAfterLocal, ProgRestoreLocal, ProgRestore,
    ProgEscapeFn, ProgEscapeMain, ProgCallNotEnough, ProgCallTooMany,
    ProgDimTwice, ProgDimExisting, ProgDimRetry, ProgDimLocal,
    ProgRestoreData, ProgGosub, ProgGosubFn, ProgClear, ProgClearHimem,
    ProgRun(NoValue), ProgRun(TV("STACK_INT", 20)), ProgRun(TV("STACK_INT", 35)),
    ProgRun(TV("STACK_INT", 70000)), ProgFor123, ProgCaseFirst,
    ProgWhileNested, ProgWhileMissing,
    ProgIfCascade, ProgIfElseCascade, ProgIfAfterEndif,
    ProgReadLocal, ProgReadPastData, ProgReadOutOfData, ProgErrorReturn,
    \* FOR I%=5 TO 3, FOR L%%=3 TO 1 STEP -1, FOR L%%=0 TO 1 STEP -2,
    \* FOR F=1 TO 2 STEP 0.5, FOR F=0.5 TO 0
    ProgForBody(IntVar("I%"), TV("STACK_INT", 5), TV("STACK_INT", 3), NoValue),
    ProgForBody(Lvalue("VAR_INTLONG", "L%%"), TV("STACK_INT", 3),
                TV("STACK_INT", 1), TV("STACK_INT", -1)),
    ProgForBody(Lvalue("VAR_INTLONG", "L%%"), TV("STACK_INT", 0),
                TV("STACK_INT", 1), TV("STACK_INT", -2)),
    ProgForBody(Lvalue("VAR_FLOAT", "F"), TV("STACK_INT", 1),
                TV("STACK_INT", 2), TV("STACK_FLOAT", 1)),
    ProgForBody(Lvalue("VAR_FLOAT", "F"), TV("STACK_FLOAT", 1),
                TV("STACK_INT", 0), NoValue),
    ProgReadTrapped, ProgDefNoBody>>

\* The workspace a program starts with
InitWorkspace ==
  [init_stack EXCEPT
     !.varlists = [n \in StaticNames \cup
                            {"B&", "C&", "L%%", "M%%", "F", "G", "H",
                             "S$", "T$", "A%()", "B%()", "A%%()"} |->
        CASE n = "@%" -> STDFORMAT [] n \in StaticNames \ {"@%", "J%"} -> 0
          [] n = "J%" -> 7 [] n = "B&" -> 200 [] n = "C&" -> 9
          [] n = "L%%" -> 70000 [] n = "M%%" -> -3
          [] n = "F" -> 3 [] n = "G" -> -5 [] n = "H" -> 1
          [] n = "S$" -> Descriptor(2, 1) [] n = "T$" -> Descriptor(1, 2)
          [] n = "A%()" -> 1 [] n = "B%()" -> 2 [] n = "A%%()" -> 3],
     !.memory = [a \in 0..23 |->
        CASE a = 0 -> 44 [] a = 1 -> 1 [] a = 4 -> 3 [] a = 8 -> 5
          [] a = 16 -> 72 [] a = 17 -> asc_CR
          [] a = 20 -> 74 [] a = 21 -> 75 [] a = 22 -> asc_CR [] OTHER -> 0],
     !.strheap = <<[live |-> TRUE, data |-> <<65, 66>>],
                   [live |-> TRUE, data |-> <<68>>]>>,
     !.arrays = <<[arrsize |-> 2, parent |-> "A%()", dimcount |-> 1,
                   dimsize |-> <<2>>, offheap |-> FALSE, elems |-> <<4, 5>>],
                  [arrsize |-> 3, parent |-> "B%()", dimcount |-> 1,
                   dimsize |-> <<3>>, offheap |-> FALSE, elems |-> <<6, 7, 8>>],
                  [arrsize |-> 2, parent |-> "A%%()", dimcount |-> 1,
                   dimsize |-> <<2>>, offheap |-> FALSE, elems |-> <<9, 0>>]>>]

Init ==
  /\ \/ \E p \in DOMAIN Programs :
          StartBasicvars([InitWorkspace EXCEPT !.program = Programs[p]])
     \/ \E p \in DOMAIN SwapPairs :
          StartBasicvars([InitWorkspace EXCEPT !.program = ProgSwap(SwapPairs[p])])
     \/ \E p \in DOMAIN ForSteps :
          StartBasicvars([InitWorkspace EXCEPT !.program = ProgForStep(ForSteps[p])])
     \/ \E p \in DOMAIN LineSites :
          StartBasicvars([InitWorkspace EXCEPT
                            !.program = ProgLineMissing(LineSites[p])])
     \/ \E l \in DOMAIN CloserLoops, c \in DOMAIN CloserCalls, isopen \in BOOLEAN :
          StartBasicvars([InitWorkspace EXCEPT
                            !.program = ProgCloser(CloserLoops[l], CloserCalls[c],
                                                   isopen)])
     \/ \E d \in DOMAIN DefOrders :
          StartBasicvars([InitWorkspace EXCEPT
                            !.program = ProgTwoDefs(DefOrders[d])])
     \/ \E f \in DOMAIN ForLimits :
          StartBasicvars([InitWorkspace EXCEPT
                            !.program = ProgForLimit(ForLimits[f])])
     \/ \E v \in DOMAIN NextVars, a \in DOMAIN NextShapes :
          StartBasicvars([InitWorkspace EXCEPT
                            !.program = ProgNextOver(NextVars[v], NextShapes[a])])
  /\ obs = [pc |-> NIL, pre |-> Snapshot, spat |-> [i \in 1..Len(program) |-> NIL],
            caught |-> FALSE, callsp |-> <<>>, input |-> NoValue,
            datasp |-> <<>>, entry |-> <<>>]

NextStatement ==
  \/ exec_repeat \/ exec_until \/ exec_while \/ exec_endwhile
  \/ exec_for \/ exec_next \/ exec_end
  \/ exec_local \/ exec_def \/ exec_xproc \/ exec_proc \/ do_function
  \/ exec_endproc \/ exec_fnreturn
  \/ exec_onerror \/ exec_error \/ handle_error
  \/ exec_goto \/ exec_gosub \/ exec_return
  \/ exec_xcase \/ exec_case \/ exec_xwhen \/ exec_endifcase
  \/ exec_swap
  \/ exec_restore \/ exec_dim \/ exec_clear \/ exec_run \/ exec_read
  \/ exec_xif \/ exec_blockif \/ exec_singlif
  \/ exec_xelse \/ exec_xlhelse \/ exec_elsewhen

Spec == Init /\ [][NextStatement]_vars

\* The same with the Escape key: it can be pressed at any time, and the
\* interpreter, as long as the program runs, takes its next step.
NextEscape == NextStatement \/ exec_statements \/ PressEscape

SpecEscape ==
  Init /\ [][NextEscape]_vars /\ WF_vars(NextStatement \/ exec_statements)

\* C2: when UNTIL, ENDWHILE or NEXT leaves its loop (execution falls through
\* to the statement after it), and the loop and the loops inside it are
\* properly nested, the stack pointer is what it was before the opening
\* REPEAT, WHILE or FOR of that loop was executed; a WHILE whose condition
\* is false at once leaves the stack pointer alone.
C2_LoopStackBalanced ==
  LET closers == {"BASIC_TOKEN_UNTIL", "BASIC_TOKEN_ENDWHILE", "BASIC_TOKEN_NEXT"}
      whiles == {"BASIC_TOKEN_WHILE", "BASIC_TOKEN_XWHILE"}
      openers == {"BASIC_TOKEN_REPEAT", "BASIC_TOKEN_FOR"} \cup whiles
      RECURSIVE Opener(_, _)
      Opener(at, depth) ==
        IF at < 1 THEN NIL
        ELSE IF program[at].token \in closers THEN Opener(at - 1, depth + 1)
        ELSE IF program[at].token \in openers
             THEN IF depth = 0 THEN at ELSE Opener(at - 1, depth - 1)
        ELSE Opener(at - 1, depth)
      Paired(j) ==
        LET i == Opener(j - 1, 0) IN
        /\ i # NIL
        /\ \/ program[j].token = "BASIC_TOKEN_UNTIL"
              /\ program[i].token = "BASIC_TOKEN_REPEAT"
           \/ program[j].token = "BASIC_TOKEN_ENDWHILE"
              /\ program[i].token \in whiles
           \/ program[j].token = "BASIC_TOKEN_NEXT"
              /\ program[i].token = "BASIC_TOKEN_FOR"
              /\ program[j].nextvars \in {<<>>, <<program[i].forvar>>}
      Balanced(j) ==
        /\ Paired(j)
        /\ \A k \in Opener(j - 1, 0)..j :
             /\ program[k].token \in closers => Paired(k)
             /\ program[k].token \in closers \cup openers
  IN  /\ (/\ errnum = "none"
          /\ obs.pc # NIL
          /\ program[obs.pc].token \in closers
          /\ current = obs.pc + 1
          /\ Balanced(obs.pc))
         => stacktop = obs.spat[Opener(obs.pc - 1, 0)]
      /\ (/\ errnum = "none"
          /\ obs.pc # NIL
          /\ program[obs.pc].token \in whiles
          /\ current # obs.pc + 1)
         => stacktop = obs.pre.stacktop

\* the outer FOR of ProgLoops has run all its iterations, with the REPEAT,
\* WHILE and inner FOR loops inside it, and NEXT I% has left it
C2_Witness ==
  /\ Len(program) = Len(ProgLoops)
  /\ obs.pc = 8
  /\ current = 9
  /\ varlists["I%"] = MaxLimit + 1
  /\ varlists["F"] = -1
  /\ program[3].token = "BASIC_TOKEN_WHILE"

\* C10: ENDWHILE never reports 'not in a WHILE loop' while a WHILE block is
\* on the stack.
C10_EndwhileFindsWhile ==
  ~(/\ errnum = "ERR_NOTWHILE"
    /\ \E i \in DOMAIN stack : stack[i].itemtype = "STACK_WHILE")

\* The return block that ENDPROC or '=' returns through: the topmost one
\* of its kind on the stack before the statement
ReturnBlock ==
  LET kind == IF program[obs.pc].token = "BASIC_TOKEN_ENDPROC"
              THEN "STACK_PROC" ELSE "STACK_FN"
      blocks == {i \in DOMAIN obs.pre.stack : obs.pre.stack[i].itemtype = kind}
  IN obs.pre.stack[CHOOSE i \in blocks : \A j \in blocks : i <= j]

\* The entry on top of the stack holds the value that the expression of '='
\* gave: the same number of the same type, or the same text
ResultIs(entry, tv) ==
  IF tv.itemtype \in {"STACK_STRING", "STACK_STRTEMP"}
  THEN /\ entry.itemtype = "STACK_STRTEMP"
       /\ StringBytes(basicvars, entry.descriptor) =
            IF tv.itemtype = "STACK_STRTEMP" THEN tv.value
            ELSE StringBytes(obs.pre, obs.pre.varlists[tv.value])
  ELSE entry.itemtype = tv.itemtype /\ entry.value = tv.value

\* C3: when ENDPROC or '=' returns, the cursor is the return address saved
\* in the return block, the head of the chain of calls is the block the
\* caller was running in, and the stack pointer is what it was before the
\* call bound its parameters; after '=' it is lower by exactly the one entry
\* that holds the result of the expression.
C3_ReturnRestoresCall ==
  (/\ errnum = "none"
   /\ obs.pc # NIL
   /\ ~obs.caught
   /\ program[obs.pc].token \in {"BASIC_TOKEN_ENDPROC", "="})
  => /\ current = ReturnBlock.retaddr
     /\ procstack = ReturnBlock.lastcall
     /\ IF program[obs.pc].token = "BASIC_TOKEN_ENDPROC"
        THEN stacktop = obs.callsp[ReturnBlock.addr]
        ELSE /\ stacktop = obs.callsp[ReturnBlock.addr]
                             - entrysize(Head(stack).itemtype)
             /\ ResultIs(Head(stack), obs.input)

\* FNf has returned the text of S$ to line 50 of ProgProc, after PROCp with
\* its three parameters, its LOCALs and its abandoned loops has returned
\* for the last time
C3_Witness ==
  /\ errnum = "none"
  /\ Len(program) = Len(ProgProc)
  /\ obs.pc = 2
  /\ current = 7
  /\ obs.input = TV("STACK_STRING", "S$")
  /\ Head(stack).itemtype = "STACK_STRTEMP"
  /\ varlists["I%"] = MaxLimit + 1
  /\ varlists["G"] = 3
  /\ varlists["J%"] = 7

\* C7: LOCAL never fails with the internal error ERR_BROKEN on a variable
\* it is given.
C7_LocalSavesEveryKind ==
  ~(/\ errnum = "ERR_BROKEN"
    /\ obs.pc # NIL
    /\ ~obs.caught
    /\ program[obs.pc].token = "BASIC_TOKEN_LOCAL")

\* C8: the return from a procedure or function never fails with the
\* internal error ERR_BROKEN while handing back its RETURN parameters.
C8_ReturnParametersHandedBack ==
  ~(/\ errnum = "ERR_BROKEN"
    /\ obs.pc # NIL
    /\ ~obs.caught
    /\ program[obs.pc].token \in {"BASIC_TOKEN_ENDPROC", "="})

\* The entries that the reset after an error has discarded, top first
Discarded == SubSeq(obs.pre.stack, 1, Len(obs.pre.stack) - Len(stack))

StartsLine(prog, k) == k = 1 \/ prog[k - 1].lineno # prog[k].lineno

\* the CASE statements opened and not closed between 'a' and statement i
NestingAt(prog, a, i) ==
  Cardinality({k \in (a + 1)..(i - 1) :
                 prog[k].token \in {"BASIC_TOKEN_XCASE", "BASIC_TOKEN_CASE"}})
  - Cardinality({k \in (a + 1)..(i - 1) :
                   /\ StartsLine(prog, k)
                   /\ prog[k].token = "BASIC_TOKEN_ENDCASE"})

\* the top-level keywords of the CASE at 'a': those that start a line
\* outside every nested CASE, as far as the ENDCASE of 'a'
TopLevel(prog, a, tokens) ==
  {i \in (a + 1)..Len(prog) :
     /\ StartsLine(prog, i)
     /\ prog[i].token \in tokens
     /\ \A k \in (a + 1)..i : NestingAt(prog, a, k) >= 0
     /\ NestingAt(prog, a, i) = 0
     /\ \A k \in (a + 1)..(i - 1) :
          ~(/\ StartsLine(prog, k)
            /\ prog[k].token = "BASIC_TOKEN_ENDCASE"
            /\ NestingAt(prog, a, k) = 0)}

\* the value of an expression, for a comparison: numbers in halves, strings
\* as their text in the state before the statement
ValueIn(pre, tv) ==
  CASE tv.itemtype \in IntItems -> [isnumber |-> TRUE, number |-> TOFLOAT(tv.value), text |-> <<>>]
    [] tv.itemtype = "STACK_FLOAT" -> [isnumber |-> TRUE, number |-> tv.value, text |-> <<>>]
    [] tv.itemtype = "STACK_STRING" ->
         [isnumber |-> FALSE, number |-> 0,
          text |-> StringBytes(pre, Deref(pre, tv.value))]
    [] OTHER -> [isnumber |-> FALSE, number |-> 0, text |-> tv.value]

\* where the scan sends a CASE for the value 'selector'
ScanBranch(pre, a, selector) ==
  LET whens == {i \in TopLevel(pre.program, a, WhenTokens) :
                  \E j \in DOMAIN pre.program[i].values :
                    ValueIn(pre, pre.program[i].values[j]) = ValueIn(pre, selector)}
      others == TopLevel(pre.program, a, OtherwiseTokens)
      ends == TopLevel(pre.program, a, {"BASIC_TOKEN_ENDCASE"}) IN
  IF whens # {} THEN 1 + CHOOSE i \in whens : \A j \in whens : i <= j
  ELSE IF others # {} THEN 1 + CHOOSE i \in others : \A j \in others : i >= j
  ELSE 1 + CHOOSE i \in ends : TRUE

\* a CASE statement has been executed and has branched
CaseTaken ==
  /\ obs.pc # NIL
  /\ ~obs.caught
  /\ errnum = "none"
  /\ obs.pre.program[obs.pc].token \in {"BASIC_TOKEN_XCASE", "BASIC_TOKEN_CASE"}

\* C4: the branch a CASE statement takes, the first time through the table
\* exec_xcase builds and later through the table as exec_case finds it, is
\* the branch that a scan forward from the CASE for its top-level WHEN,
\* OTHERWISE and ENDCASE takes for the same value, CASE statements nested in
\* it included.
C4_CaseBranchesAsScan ==
  CaseTaken => current = ScanBranch(obs.pre, obs.pc, obs.input)

\* What an operand of SWAP holds in the workspace 'w': a number, a string
\* variable's descriptor and text, the text at a $ address, or an array
OperandValue(w, lv) ==
  CASE lv.typeinfo = "VAR_INTBYTEPTR" -> Peek(w, lv.address)
    [] lv.typeinfo = "VAR_INTWORDPTR" -> get_integer(w, lv.address)
    [] lv.typeinfo = "VAR_FLOATPTR" -> get_float(w, lv.address)
    [] lv.typeinfo = "VAR_STRINGDOL" ->
         [descriptor |-> Deref(w, lv.address),
          text |-> StringBytes(w, Deref(w, lv.address))]
    [] lv.typeinfo = "VAR_DOLSTRPTR" ->
         MemBytes(w, lv.address, get_stringlen(w, lv.address))
    [] OTHER -> Deref(w, lv.address)

\* the pairs of operands the statement of C6 lists
ListedPair(first, second) ==
  LET numbers == {"VAR_UINT8", "VAR_INTWORD", "VAR_INTLONG", "VAR_FLOAT",
                  "VAR_INTBYTEPTR", "VAR_INTWORDPTR", "VAR_FLOATPTR"}
      strings == {"VAR_STRINGDOL", "VAR_DOLSTRPTR"} IN
  \/ first.typeinfo \in numbers /\ second.typeinfo \in numbers
  \/ first.typeinfo \in strings /\ second.typeinfo \in strings
  \/ first.typeinfo \in ArrayTypes /\ second.typeinfo = first.typeinfo

\* a program of two SWAPs of the same operands has run as far as it goes
SwapsRun ==
  /\ obs.pc # NIL
  /\ program[1].token = "BASIC_TOKEN_SWAP"
  /\ ListedPair(program[1].first, program[1].second)

\* C6: SWAP takes every pair of operands listed (two numbers of any of the
\* types uint8, int32, int64 and float or behind ?, ! and |, two strings
\* that are variables or at $ addresses, two arrays of one type), and after
\* SWAP a,b has run twice a and b hold what they held at the start.
C6_SwapTwiceRestores ==
  SwapsRun =>
    /\ errnum = "none"
    /\ obs.pc >= 2 =>
         /\ OperandValue(basicvars, program[1].first)
              = OperandValue(InitWorkspace, program[1].first)
         /\ OperandValue(basicvars, program[1].second)
              = OperandValue(InitWorkspace, program[1].second)

\* the statement just executed, as it was before: a GOTO or GOSUB with a
\* line number token for a line of the program, and it has branched
BranchTaken ==
  /\ obs.pc # NIL
  /\ ~obs.caught
  /\ errnum = "none"
  /\ obs.pre.program[obs.pc].token \in {"BASIC_TOKEN_GOTO", "BASIC_TOKEN_GOSUB"}
  /\ obs.pre.program[obs.pc].ref \in
       {"BASIC_TOKEN_XLINENUM", "BASIC_TOKEN_LINENUM"}
  /\ \E i \in DOMAIN program : program[i].lineno = obs.pre.program[obs.pc].line

\* the first statement of line n
FirstOfLine(n) ==
  CHOOSE i \in DOMAIN program :
    /\ program[i].lineno = n
    /\ \A j \in DOMAIN program : program[j].lineno = n => i <= j

\* C5: GOTO n and GOSUB n with a literal number of a line of the program:
\* the first execution turns the operand from the unresolved into the
\* resolved form, with the address of the first executable token of line n;
\* a later execution finds the resolved form, branches to the address in it
\* and leaves the program as it is; every execution goes to the first
\* executable token of line n.
C5_BranchResolvedOnce ==
  BranchTaken =>
    /\ current = FirstOfLine(obs.pre.program[obs.pc].line)
    /\ program[obs.pc] =
         [obs.pre.program[obs.pc] EXCEPT !.ref = "BASIC_TOKEN_LINENUM",
                                         !.dest = current]
    /\ \A i \in DOMAIN program :
         i # obs.pc => program[i] = obs.pre.program[i]
    /\ obs.pre.program[obs.pc].ref = "BASIC_TOKEN_LINENUM" =>
         /\ current = obs.pre.program[obs.pc].dest
         /\ program = obs.pre.program

\* GOSUB 100 of ProgBranch, resolved in the first iteration of the FOR loop,
\* has branched again in the second iteration to the REPEAT that line 100
\* starts with, and the GOTO 50 after it is resolved as well
C5_Witness ==
  /\ BranchTaken
  /\ obs.pre.program[obs.pc].token = "BASIC_TOKEN_GOSUB"
  /\ obs.pre.program[obs.pc].ref = "BASIC_TOKEN_LINENUM"
  /\ obs.pre.program[obs.pc].line = 100
  /\ program[current].token = "BASIC_TOKEN_REPEAT"
  /\ program[current + 1].lineno = 100
  /\ varlists["I%"] = 2
  /\ \E i \in DOMAIN program :
       /\ program[i].token = "BASIC_TOKEN_GOTO"
       /\ program[i].ref = "BASIC_TOKEN_LINENUM"
       /\ program[i].dest = FirstOfLine(50)

\* The statement just executed, as it was before it ran
Executed == obs.pre.program[obs.pc]

\* a statement has just run and no error has been handed to a handler since
JustRan(tokens) ==
  /\ obs.pc # NIL
  /\ ~obs.caught
  /\ Executed.token \in tokens

NumericItems == {"STACK_INT", "STACK_UINT8", "STACK_INT64", "STACK_FLOAT"}

\* FOR v = .. TO .. STEP s has run where v is a uint8, int32, int64 or float
\* variable and s is a number equal to zero
ZeroStepRan ==
  /\ JustRan({"BASIC_TOKEN_FOR"})
  /\ Executed.forvar.typeinfo \in
       {"VAR_UINT8", "VAR_INTWORD", "VAR_INTLONG", "VAR_FLOAT"}
  /\ Executed.initial.itemtype \in NumericItems
  /\ Executed.limit.itemtype \in NumericItems
  /\ Executed.step.itemtype \in NumericItems
  /\ Executed.step.value = 0

\* C11: a FOR whose explicit STEP evaluates to zero raises ERR_SILLY
\* ('Silly') and leaves the stack as it was, with no FOR block on it, for
\* uint8, int32, int64 and float control variables.
C11_ZeroStepSilly ==
  ZeroStepRan =>
    /\ errnum = "ERR_SILLY"
    /\ stacktop = obs.pre.stacktop
    /\ stack = obs.pre.stack
    /\ GET_TOPITEM(basicvars) \notin ForBlocks

\* FOR F=1 TO 2 STEP 0.0 with a float variable has raised the error
C11_Witness ==
  /\ ZeroStepRan
  /\ Executed.forvar.typeinfo = "VAR_FLOAT"
  /\ Executed.step.itemtype = "STACK_FLOAT"
  /\ errnum = "ERR_SILLY"

\* No ELSE and no ENDIF is the first token of a line between the line after
\* statement 'at' and the end of the program
NoElseOrEndif(prog, at) ==
  \A i \in NextLine(prog, at)..Len(prog) :
    prog[i].token \notin {"BASIC_TOKEN_ENDIF", "BASIC_TOKEN_XLHELSE",
                          "BASIC_TOKEN_LHELSE"}

\* a block IF with no ELSE or ENDIF after it has just run
OpenIfRan ==
  /\ JustRan(IfTokens)
  /\ Executed.block
  /\ NoElseOrEndif(obs.pre.program, obs.pc)
  /\ obs.input.itemtype \in NumericItems

\* C12: a block IF that has no ELSE or ENDIF before the end of the program
\* raises ERR_ENDIF ('ENDIF missing') when its condition is false; when the
\* condition is true no error is raised and the program goes on with the
\* line after the IF.
C12_OpenBlockIf ==
  OpenIfRan =>
    IF obs.input.value = 0
    THEN errnum = "ERR_ENDIF"
    ELSE errnum = "none" /\ current = NextLine(program, obs.pc)

\* a CASE statement has branched for a value that none of its top-level
\* WHENs lists, and it has no top-level OTHERWISE
CaseUnmatched ==
  /\ CaseTaken
  /\ TopLevel(obs.pre.program, obs.pc, OtherwiseTokens) = {}
  /\ \A i \in TopLevel(obs.pre.program, obs.pc, WhenTokens) :
       \A j \in DOMAIN obs.pre.program[i].values :
         ValueIn(obs.pre, obs.pre.program[i].values[j]) # ValueIn(obs.pre, obs.input)

\* C13: a CASE statement in which no WHEN matches the value and which has
\* no top-level OTHERWISE goes on at the token after its own ENDCASE, not
\* that of a CASE nested in it, so that no WHEN body is executed.
C13_UnmatchedCaseToEndcase ==
  CaseUnmatched =>
    \E e \in TopLevel(obs.pre.program, obs.pc, {"BASIC_TOKEN_ENDCASE"}) :
      current = e + 1

\* ON ERROR <statements>, without LOCAL, has run
OnErrorRan ==
  /\ JustRan({"BASIC_TOKEN_ON"})
  /\ Executed.what = "statements"
  /\ errnum = "none"

\* The statement just run has put an ERROR block on top of the stack it
\* started with
ErrorBlockPushed ==
  /\ obs.pc # NIL
  /\ ~obs.caught
  /\ stack = <<Head(stack)>> \o obs.pre.stack
  /\ GET_TOPITEM(basicvars) = "STACK_ERROR"

C16_GlobalReplaced ==
  /\ OnErrorRan
  /\ ~obs.pre.errorislocal
  /\ obs.pre.error_handler # noerrorblock

\* RESTORE LOCAL has run inside a PROC or an FN
RestoreLocalRan ==
  /\ JustRan({"BASIC_TOKEN_RESTORE"})
  /\ Executed.what = "BASIC_TOKEN_LOCAL"
  /\ obs.pre.procstack # NIL

\* the frames of the stack from the return block at 'frame' down
FramesFrom(s, frame) ==
  SelectSeq(s, LAMBDA b : "addr" \notin DOMAIN b \/ b.addr >= frame)

\* C17: RESTORE LOCAL inside a PROC or an FN raises no error and leaves the
\* return block of the subprogram that is running, and everything below
\* it, on the stack, with the variables saved by LOCAL above it restored
\* and gone.
C17_RestoreLocalKeepsReturn ==
  RestoreLocalRan =>
    /\ errnum = "none"
    /\ procstack = obs.pre.procstack
    /\ stacktop = procstack
    /\ GET_TOPITEM(basicvars) \in {"STACK_PROC", "STACK_FN"}
    /\ stack = FramesFrom(obs.pre.stack, procstack)

\* the same inside a PROC only
C17_RestoreLocalInProc ==
  (RestoreLocalRan /\ obs.pre.stack[Len(obs.pre.stack) - 1].itemtype = "STACK_PROC") =>
    /\ errnum = "none"
    /\ procstack = obs.pre.procstack
    /\ stacktop = procstack
    /\ GET_TOPITEM(basicvars) = "STACK_PROC"
    /\ stack = FramesFrom(obs.pre.stack, procstack)

\* RESTORE LOCAL has run in a PROC that had saved a variable
C17_InProc ==
  /\ RestoreLocalRan
  /\ Head(obs.pre.stack).itemtype = "STACK_LOCAL"
  /\ GET_TOPITEM(basicvars) = "STACK_PROC"

\* RESTORE LOCAL has run in an FN and the return block of the FN is gone
C17_InFn ==
  /\ RestoreLocalRan
  /\ obs.pre.stack[Len(obs.pre.stack) - 1].itemtype = "STACK_FN"
  /\ GET_TOPITEM(basicvars) = "STACK_UNKNOWN"
  /\ procstack = NIL

\* the '=' after it has failed
C17_FnReturnFails ==
  /\ JustRan({"="})
  /\ obs.pc = 13 /\ Len(program) = 13
  /\ errnum = "ERR_FNRETURN"

\* C18, the main loop: with the escape flag set outside the body of a
\* function, the next step of the interpreter raises ERR_ESCAPE and
\* dispatches no statement.
C18_MainLoopRaises ==
  [][(escape /\ Running /\ ~InFnBody /\ current' # current)
       => errnum' = "ERR_ESCAPE"]_vars

\* C18: once the escape flag is set while the program runs, ERR_ESCAPE is
\* raised, or the run has ended before a statement that looks at the flag
\* was reached; whatever cycle the program is in, in the main program or
\* in the body of a function.
C18_EscapeRaised ==
  (escape /\ Running) ~> (errnum = "ERR_ESCAPE" \/ ~Running)

\* the same outside the bodies of functions
C18_EscapeRaisedOutsideFn ==
  (escape /\ Running /\ ~InFnBody) ~> (errnum = "ERR_ESCAPE" \/ ~Running)

\* the escape flag is set in the body of a function, and the IF has gone
\* back to the start of its line
C18_InFnCycle ==
  /\ escape /\ Running /\ InFnBody
  /\ obs.pc # NIL
  /\ Executed.token = "BASIC_TOKEN_SINGLIF"
  /\ current < obs.pc

\* A call of a PROC has run, the Escape key aside, from a place where the
\* use of a parameter list is not that of the DEF: 'toomany' says which way
MismatchedCallRan(toomany) ==
  /\ JustRan({"BASIC_TOKEN_XFNPROCALL", "BASIC_TOKEN_FNPROCALL"})
  /\ Executed.fnproc = "PROC"
  /\ errnum # "ERR_ESCAPE"
  /\ FindDef(obs.pre.program, Executed.name) # NIL
  /\ (Executed.actuals # <<>>) = toomany
  /\ (obs.pre.program[FindDef(obs.pre.program, Executed.name)].formals = <<>>)
       = toomany

\* C19: every execution of a call of a PROC without '(' where the DEF has
\* formal parameters raises ERR_NOTENUFF, every execution of a call with
\* '(' where the DEF has none raises ERR_TOOMANY, and neither pushes a PROC
\* block.
C19_MismatchedCallRaises ==
  /\ MismatchedCallRan(FALSE) =>
       errnum = "ERR_NOTENUFF" /\ stack = obs.pre.stack
  /\ MismatchedCallRan(TRUE) =>
       errnum = "ERR_TOOMANY"
         /\ \A i \in DOMAIN stack : stack[i].itemtype # "STACK_PROC"

\* the same for the first execution of the call
C19_FirstCallRaises ==
  /\ (MismatchedCallRan(FALSE) /\ Executed.token = "BASIC_TOKEN_XFNPROCALL") =>
       errnum = "ERR_NOTENUFF" /\ stack = obs.pre.stack
  /\ MismatchedCallRan(TRUE) =>
       errnum = "ERR_TOOMANY"
         /\ \A i \in DOMAIN stack : stack[i].itemtype # "STACK_PROC"

\* a call without '(' of a PROC with a formal parameter, run for the second
\* time, has entered the PROC
C19_SecondCallEnters ==
  /\ MismatchedCallRan(FALSE)
  /\ Executed.token = "BASIC_TOKEN_FNPROCALL"
  /\ errnum = "none"
  /\ GET_TOPITEM(basicvars) = "STACK_PROC"

\* a call with '(' of a PROC without formal parameters has run for the
\* second time
C19_SecondCallTooMany ==
  /\ MismatchedCallRan(TRUE)
  /\ Executed.token = "BASIC_TOKEN_FNPROCALL"
  /\ errnum = "ERR_TOOMANY"

\* A DIM has run whose item i names an array, the first item of the
\* statement with that name
DimArrayRan(i) ==
  /\ JustRan({"BASIC_TOKEN_DIM"})
  /\ i \in DOMAIN Executed.items
  /\ Executed.items[i].type \in ArrayTypes
  /\ \A j \in 1..(i - 1) : Executed.items[j].name # Executed.items[i].name

\* the array named by item i had a descriptor, had none, or did not exist
\* when the DIM started
DimOfDefined(i) ==
  /\ DimArrayRan(i)
  /\ Executed.items[i].name \in DOMAIN obs.pre.varlists
  /\ obs.pre.varlists[Executed.items[i].name] # NIL

DimOfUndefined(i) ==
  /\ DimArrayRan(i)
  /\ Executed.items[i].name \in DOMAIN obs.pre.varlists
  /\ obs.pre.varlists[Executed.items[i].name] = NIL

DimOfNew(i) ==
  /\ DimArrayRan(i)
  /\ Executed.items[i].name \notin DOMAIN obs.pre.varlists

\* the descriptor of the array of item 'it' is one made by this DIM, with every
\* element zero or the null string
FreshArray(it) ==
  /\ varlists[it.name] \in DOMAIN arrays \ DOMAIN obs.pre.arrays
  /\ arrays[varlists[it.name]].parent = it.name
  /\ arrays[varlists[it.name]].arrsize = Len(arrays[varlists[it.name]].elems)
  /\ \A e \in DOMAIN arrays[varlists[it.name]].elems :
       arrays[varlists[it.name]].elems[e]
         = IF it.type = "VAR_STRARRAY" THEN nullstring ELSE 0

ItemIndexes == 1..2

\* C20: a DIM of an array that has a descriptor raises ERR_DUPLDIM (an
\* item before it in the statement may have raised its own error first) and
\* leaves the variable with that descriptor and the descriptor, elements
\* included, as it was.  An array that the DIM has created has no descriptor
\* unless the DIM went through, and then it has a new one with its elements
\* cleared.  A DIM of an array without descriptor is not refused as a
\* duplicate, and gives the array a new descriptor when it goes through.
C20_DimDuplicate ==
  \A i \in ItemIndexes :
    /\ DimOfDefined(i) =>
         /\ errnum # "none"
         /\ i = 1 => errnum = "ERR_DUPLDIM"
         /\ varlists[Executed.items[i].name]
              = obs.pre.varlists[Executed.items[i].name]
         /\ arrays[varlists[Executed.items[i].name]]
              = obs.pre.arrays[varlists[Executed.items[i].name]]
    /\ (DimOfNew(i) /\ Executed.items[i].name \in DOMAIN varlists) =>
         /\ varlists[Executed.items[i].name] = NIL
              \/ FreshArray(Executed.items[i])
         /\ errnum = "none" => varlists[Executed.items[i].name] # NIL
    /\ DimOfUndefined(i) =>
         /\ i = 1 => errnum # "ERR_DUPLDIM"
         /\ varlists[Executed.items[i].name] = NIL
              \/ FreshArray(Executed.items[i])
         /\ errnum = "none" => varlists[Executed.items[i].name] # NIL

\* a second DIM of an array that a first DIM has made has been refused
C20_Witness ==
  /\ DimOfDefined(1)
  /\ obs.pre.varlists[Executed.items[1].name] \notin DOMAIN InitWorkspace.arrays
  /\ errnum = "ERR_DUPLDIM"

\* the other cases: a DIM that failed has left a new array without
\* descriptor, a DIM of such an array has gone through, in the main program
\* and in a PROC, the duplicate is the second item, and the heap is full

C20_FailedDimLeavesNull ==
  /\ DimOfNew(1) /\ errnum = "ERR_NEGDIM"
  /\ varlists[Executed.items[1].name] = NIL

C20_RetryAccepted ==
  /\ DimOfUndefined(1) /\ errnum = "none"
  /\ FreshArray(Executed.items[1])
  /\ procstack = NIL

C20_LocalAccepted ==
  /\ DimOfUndefined(1) /\ errnum = "none"
  /\ FreshArray(Executed.items[1])
  /\ procstack # NIL

C20_SecondItemRefused ==
  /\ DimOfDefined(2) /\ errnum = "ERR_DUPLDIM"

C20_NoRoomRemoves ==
  /\ DimOfNew(1) /\ errnum = "ERR_BADDIM"
  /\ Executed.items[1].name \notin DOMAIN varlists

\* No line of the program has this number
LineAbsent(prog, line) == \A i \in DOMAIN prog : prog[i].lineno # line

\* The token at 'tp' was a line number not yet looked up, of a line that is
\* not in the program, when the statement started
UnresolvedAbsent(tp) ==
  /\ tp \in DOMAIN obs.pre.program
  /\ "ref" \in DOMAIN obs.pre.program[tp]
  /\ obs.pre.program[tp].ref = "BASIC_TOKEN_XLINENUM"
  /\ LineAbsent(obs.pre.program, obs.pre.program[tp].line)

\* The line number token that the IF just executed has branched to, NIL if
\* it has branched to a statement
IfLineTaken ==
  IF JustRan({"BASIC_TOKEN_XIF", "BASIC_TOKEN_SINGLIF"})
     /\ program[obs.pc].token = "BASIC_TOKEN_SINGLIF"
  THEN With(IF pop_anynum64(PushValue(basicvars, obs.input)).val # 0
            THEN program[obs.pc].thendest ELSE program[obs.pc].elsedest,
            LAMBDA tp :
              IF tp \in DOMAIN program /\ program[tp].token = "linenum"
              THEN tp ELSE NIL)
  ELSE NIL

\* The statement just executed holds, or has branched to, the line number
\* token 'tp' (the Escape key aside)
LineSiteRan(tp) ==
  /\ errnum # "ERR_ESCAPE"
  /\ \/ /\ JustRan({"BASIC_TOKEN_GOTO", "BASIC_TOKEN_GOSUB"}) /\ tp = obs.pc
     \/ /\ JustRan({"BASIC_TOKEN_RESTORE"}) /\ tp = obs.pc
        /\ Executed.what = "linenum"
     \/ /\ IfLineTaken # NIL /\ tp = IfLineTaken

\* C21: when GOTO, GOSUB, RESTORE or a single line IF goes to a line number
\* not yet looked up and the line is not in the program, ERR_LINEMISS is
\* raised, the line number token is left as it was, not looked up and with
\* its number, and no frame is pushed and the DATA pointer is not moved.
C21_LineMissingKeepsToken ==
  \A tp \in DOMAIN program :
    (LineSiteRan(tp) /\ UnresolvedAbsent(tp)) =>
       /\ errnum = "ERR_LINEMISS"
       /\ program[tp] = obs.pre.program[tp]
       /\ stack = obs.pre.stack
       /\ datacur = obs.pre.datacur

\* the reference has failed a second time: the GOTO of the error handler
\* that leads back to it has been looked up by an earlier run
C21_Witness ==
  \E tp \in DOMAIN program :
    /\ LineSiteRan(tp) /\ UnresolvedAbsent(tp)
    /\ errnum = "ERR_LINEMISS"
    /\ "ref" \in DOMAIN program[2]
    /\ program[2].ref = "BASIC_TOKEN_LINENUM"

\* the same for each kind of statement
C21_GosubAgain ==
  /\ C21_Witness /\ JustRan({"BASIC_TOKEN_GOSUB"})

C21_RestoreAgain ==
  /\ C21_Witness /\ JustRan({"BASIC_TOKEN_RESTORE"})

C21_ThenAgain ==
  /\ C21_Witness /\ JustRan({"BASIC_TOKEN_SINGLIF"})
  /\ IfLineTaken = program[obs.pc].thendest

C21_ElseAgain ==
  /\ C21_Witness /\ JustRan({"BASIC_TOKEN_SINGLIF"})
  /\ IfLineTaken = program[obs.pc].elsedest

\* The place in the stack, as the statement found it, of the GOSUB block
\* nearest the top; 0 when there is none
TopGosub ==
  LET blocks == {i \in DOMAIN obs.pre.stack :
                   obs.pre.stack[i].itemtype = "STACK_GOSUB"} IN
  IF blocks = {} THEN 0 ELSE CHOOSE i \in blocks : \A j \in blocks : i <= j

\* C22: a RETURN with no GOSUB active raises ERR_RETURN and leaves the
\* stack as it was.  With a GOSUB active it raises no error, takes the
\* GOSUB block nearest the top of the stack and every block above it off
\* the stack, goes to the statement after the GOSUB that pushed that block
\* (the latest run of that GOSUB), and makes the GOSUB active before it the
\* head of the chain.
C22_ReturnToLastGosub ==
  JustRan({"BASIC_TOKEN_RETURN"}) =>
    IF obs.pre.gosubstack = NIL
    THEN /\ errnum = "ERR_RETURN"
         /\ stack = obs.pre.stack /\ stacktop = obs.pre.stacktop
         /\ gosubstack = NIL
    ELSE /\ errnum = "none"
         /\ TopGosub # 0
         /\ obs.pre.stack[TopGosub].addr = obs.pre.gosubstack
         /\ stack = SubSeq(obs.pre.stack, TopGosub + 1, Len(obs.pre.stack))
         /\ stacktop = obs.pre.gosubstack + entrysize("STACK_GOSUB")
         /\ gosubstack = obs.pre.stack[TopGosub].lastcall
         /\ current = obs.pre.stack[TopGosub].retaddr
         /\ program[current - 1].token = "BASIC_TOKEN_GOSUB"
         /\ obs.spat[current - 1]
              = obs.pre.gosubstack + entrysize("STACK_GOSUB")

\* a RETURN in a PROC called from the second of two subroutines has taken
\* the LOCAL, PROC and REPEAT blocks off with the GOSUB block, and the first
\* GOSUB is the head of the chain again
C22_Witness ==
  /\ JustRan({"BASIC_TOKEN_RETURN"})
  /\ errnum = "none"
  /\ TopGosub > 3
  /\ obs.pre.procstack # NIL /\ procstack = NIL
  /\ gosubstack # NIL
  /\ GET_TOPITEM(basicvars) = "STACK_WHILE"

\* a RETURN with no GOSUB active has been refused
C22_NoGosub ==
  /\ JustRan({"BASIC_TOKEN_RETURN"})
  /\ obs.pre.gosubstack = NIL /\ errnum = "ERR_RETURN"
  /\ Len(stack) = 1

\* a RETURN in a function called from a subroutine has taken the blocks of
\* the function off the stack
C22_ReturnInFn ==
  /\ JustRan({"BASIC_TOKEN_RETURN"})
  /\ errnum = "none"
  /\ \E i \in 1..TopGosub : obs.pre.stack[i].itemtype = "STACK_FN"


(***************************************************************************)
(* CLEAR, RUN and the static integer variables                             *)
(***************************************************************************)
\* CLEAR with nothing after it, or a RUN that got as far as starting the
\* program again, has just run
ClearedAll ==
  \/ /\ JustRan({"BASIC_TOKEN_CLEAR"})
     /\ Executed.what # "BASIC_TOKEN_HIMEM"
  \/ /\ JustRan({"BASIC_TOKEN_RUN"})
     /\ errnum = "none"

\* C23: the static integer variables @% and A% to Z% are there in every
\* state.  A CLEAR of any form and a RUN leave each of them with the value it
\* had before the statement, and after a CLEAR with nothing after it, or a
\* RUN that starts the program again, no other variable is left.
C23_ClearKeepsStatic ==
  /\ StaticNames \subseteq DOMAIN varlists
  /\ JustRan({"BASIC_TOKEN_CLEAR", "BASIC_TOKEN_RUN"}) =>
       \A n \in StaticNames : varlists[n] = obs.pre.varlists[n]
  /\ ClearedAll => DOMAIN varlists = StaticNames

\* CLEAR has run where there were variables made by the program and a static
\* variable that a FOR had set
C23_Witness ==
  /\ JustRan({"BASIC_TOKEN_CLEAR"})
  /\ Executed.what # "BASIC_TOKEN_HIMEM"
  /\ "C%()" \in DOMAIN obs.pre.varlists
  /\ varlists["I%"] = 3 /\ varlists["J%"] = 7 /\ varlists["@%"] = STDFORMAT
  /\ "C%()" \notin DOMAIN varlists

\* RUN has started the program again where it had made a variable
C23_RunCleared ==
  /\ JustRan({"BASIC_TOKEN_RUN"})
  /\ errnum = "none"
  /\ "C%()" \in DOMAIN obs.pre.varlists
  /\ current = 1

\* CLEAR HIMEM has removed the arrays made by DIM HIMEM and nothing else
C23_ClearHimem ==
  /\ JustRan({"BASIC_TOKEN_CLEAR"})
  /\ Executed.what = "BASIC_TOKEN_HIMEM"
  /\ Executed.array = ""
  /\ "D%()" \in DOMAIN obs.pre.varlists
  /\ "D%()" \notin DOMAIN varlists
  /\ "A%()" \in DOMAIN varlists

\* CLEAR HIMEM of an array that DIM HIMEM did not make is refused
C23_ClearHimemRefused ==
  /\ JustRan({"BASIC_TOKEN_CLEAR"})
  /\ Executed.array = "A%()"
  /\ errnum = "ERR_OFFHEAPARRAY"


(***************************************************************************)
(* NEXT with a variable                                                    *)
(***************************************************************************)
\* NEXT v has run, and the Escape key was not found pressed
NextVarRan ==
  /\ JustRan({"BASIC_TOKEN_NEXT"})
  /\ Executed.nextvars # <<>>
  /\ errnum # "ERR_ESCAPE"

\* the FOR blocks of the variable of the NEXT on the stack the NEXT found
ForBlocksOf ==
  {i \in DOMAIN obs.pre.stack :
     /\ obs.pre.stack[i].itemtype \in ForBlocks
     /\ obs.pre.stack[i].forvar.address = Executed.nextvars[1].address}

\* the one nearest the top
TopForBlock == CHOOSE i \in ForBlocksOf : \A j \in ForBlocksOf : i <= j

\* above the FOR block of the variable there are only FOR blocks and entries
\* that can be thrown away
OnlyDiscardableAbove ==
  /\ ForBlocksOf # {}
  /\ \A j \in 1..(TopForBlock - 1) :
       \/ obs.pre.stack[j].itemtype \in ForBlocks
       \/ disposable(obs.pre.stack[j].itemtype)

\* the NEXT has taken everything above the FOR block off the stack and
\* stepped the loop: it goes round again with the block on top, or the loop
\* has ended and the block is gone too
SteppedLoop ==
  LET fp == obs.pre.stack[TopForBlock]
      v == fp.forvar.address
      step == IF fp.simplefor THEN 1 ELSE fp.step IN
  /\ errnum = "none"
  /\ varlists[v] = obs.pre.varlists[v] + step
  /\ \/ /\ stack = SubSeq(obs.pre.stack, TopForBlock, Len(obs.pre.stack))
        /\ current = fp.foraddr
     \/ /\ stack = SubSeq(obs.pre.stack, TopForBlock + 1, Len(obs.pre.stack))
        /\ current = obs.pc + 1

\* C27: NEXT v with only FOR blocks and discardable entries above the FOR
\* block of v takes them off the stack and steps the loop of v, whatever the
\* type of v, and raises 'not in a FOR loop' only when the stack has no FOR
\* block of v.
C27_NextFindsFor ==
  NextVarRan =>
    /\ OnlyDiscardableAbove => SteppedLoop
    /\ errnum = "ERR_NOTFOR" => ForBlocksOf = {}

\* NEXT v has raised 'not in a FOR loop' where the FOR block of the 64-bit
\* variable v was on the stack under the block of a GOSUB
C27_Int64NotFound ==
  /\ NextVarRan
  /\ OnlyDiscardableAbove
  /\ obs.pre.stack[TopForBlock].itemtype = "STACK_INT64FOR"
  /\ obs.pre.stack[1].itemtype = "STACK_GOSUB"
  /\ errnum = "ERR_NOTFOR"
  /\ Head(stack).itemtype = "STACK_INT64FOR"

\* The same for a variable that is a 32-bit integer or a float, and for a
\* 64-bit integer when NEXT finds a FOR block on top of the stack each time
\* it looks
C27_NextFindsOtherFor ==
  (/\ NextVarRan
   /\ OnlyDiscardableAbove
   /\ \/ obs.pre.stack[TopForBlock].itemtype # "STACK_INT64FOR"
      \/ \A j \in 1..(TopForBlock - 1) : obs.pre.stack[j].itemtype \in ForBlocks)
    => SteppedLoop

\* NEXT of a float variable has thrown away the block of a GOSUB and the
\* block of an inner FOR and gone round the loop again
C27_FloatStepped ==
  /\ NextVarRan
  /\ OnlyDiscardableAbove
  /\ TopForBlock = 3
  /\ obs.pre.stack[3].itemtype = "STACK_FLOATFOR"
  /\ obs.pre.stack[1].itemtype = "STACK_GOSUB"
  /\ Len(stack) = Len(obs.pre.stack) - 2
  /\ current = obs.pre.stack[3].foraddr

\* NEXT of a 64-bit variable has thrown away the block of an inner FOR
C27_Int64OverFor ==
  /\ NextVarRan
  /\ TopForBlock = 2
  /\ obs.pre.stack[2].itemtype = "STACK_INT64FOR"
  /\ obs.pre.stack[1].itemtype = "STACK_INTFOR"
  /\ SteppedLoop


(***************************************************************************)
(* The rounds of a FOR loop                                                *)
(***************************************************************************)
\* the value of an operand of FOR as a value of the control variable
ForValue(tv, forvar) ==
  IF forvar.typeinfo = "VAR_FLOAT"
  THEN IF tv.itemtype = "STACK_FLOAT" THEN tv.value ELSE TOFLOAT(tv.value)
  ELSE IF tv.itemtype = "STACK_FLOAT" THEN TruncHalves(tv.value) ELSE tv.value

\* v has passed b in the direction of s
Past(v, b, s) == IF s > 0 THEN v > b ELSE v < b

\* FOR has run with a control variable that is a 32-bit integer, a 64-bit
\* integer or a float, with numbers for its operands, and raised no error
ForRan ==
  /\ JustRan({"BASIC_TOKEN_FOR"})
  /\ Executed.forvar.typeinfo \in {"VAR_INTWORD", "VAR_INTLONG", "VAR_FLOAT"}
  /\ Executed.initial.itemtype \in NumericItems
  /\ Executed.limit.itemtype \in NumericItems
  /\ errnum = "none"

\* NEXT has run with the FOR block of such a loop on top of the stack, and
\* no variable or the variable of that loop after it; the new value is
\* within the range of a 32-bit control variable
NextRan ==
  /\ JustRan({"BASIC_TOKEN_NEXT"})
  /\ errnum = "none"
  /\ obs.pre.stack[1].itemtype \in ForBlocks
  /\ obs.pre.stack[1].forvar.typeinfo \in {"VAR_INTWORD", "VAR_INTLONG", "VAR_FLOAT"}
  /\ obs.pre.stack[1].forvar.typeinfo = "VAR_INTWORD"
       => ~Overflows32(obs.pre.varlists[obs.pre.stack[1].forvar.address],
                       IF obs.pre.stack[1].simplefor THEN 1
                       ELSE obs.pre.stack[1].step)
  /\ \/ Executed.nextvars = <<>>
     \/ /\ Len(Executed.nextvars) = 1
        /\ Executed.nextvars[1].address = obs.pre.stack[1].forvar.address

\* C28: FOR v = a TO b STEP s gives v the value a and enters the body with
\* the FOR block on top of the stack, whether a is past b or not.  Each NEXT
\* adds s (1 without STEP) to v; when the new value has not passed b in the
\* direction of s the body is run again, and when it has the FOR block is
\* taken off the stack and the program goes on after the NEXT with that value
\* in v.  In FOR I%=1 TO 3 the body runs with I% = 1, 2 and 3 and I% is 4
\* after the loop.
C28_ForRounds ==
  /\ ForRan =>
       LET v == Executed.forvar
           s == IF Executed.step = NoValue THEN ForValue(TV("STACK_INT", 1), v)
                ELSE ForValue(Executed.step, v) IN
       /\ varlists[v.address] = ForValue(Executed.initial, v)
       /\ Tail(stack) = obs.pre.stack
       /\ Head(stack).itemtype \in ForBlocks
       /\ Head(stack).forvar.address = v.address
       /\ Head(stack).limit = ForValue(Executed.limit, v)
       /\ (IF Head(stack).simplefor THEN s = 1 ELSE Head(stack).step = s)
       /\ Head(stack).foraddr = obs.pc + 1
       /\ current = obs.pc + 1
  /\ NextRan =>
       LET fp == obs.pre.stack[1]
           v == fp.forvar.address
           s == IF fp.simplefor THEN 1 ELSE fp.step IN
       /\ varlists[v] = obs.pre.varlists[v] + s
       /\ IF Past(varlists[v], fp.limit, s)
          THEN stack = Tail(obs.pre.stack) /\ current = obs.pc + 1
          ELSE stack = obs.pre.stack /\ current = fp.foraddr
  /\ (program = ProgFor123 /\ errnum = "none") =>
       /\ current = 2 =>
            /\ varlists["I%"] \in 1..3
            /\ Head(stack).itemtype = "STACK_INTFOR"
       /\ current \in {4, NIL} =>
            /\ varlists["I%"] = 4
            /\ Len(stack) = 1

\* the body of FOR I%=1 TO 3 has run for the third time
C28_Witness ==
  /\ program = ProgFor123
  /\ obs.pc = 2 /\ current = 3
  /\ varlists["I%"] = 3
  /\ Head(stack).itemtype = "STACK_INTFOR"

\* FOR I%=1 TO 3 has ended
C28_Ended ==
  /\ program = ProgFor123
  /\ NextRan
  /\ obs.pre.varlists["I%"] = 3 /\ varlists["I%"] = 4
  /\ Len(stack) = 1 /\ current = 4

\* the body of a loop whose first value is past its last has run, and the
\* NEXT after it has ended the loop
C28_OnceWhenPast ==
  /\ NextRan
  /\ obs.pre.stack[1].itemtype = "STACK_INT64FOR"
  /\ obs.pre.stack[1].step = -2 /\ obs.pre.stack[1].limit = 1
  /\ obs.pre.varlists["L%%"] = 0 /\ varlists["L%%"] = -2
  /\ obs.spat[2] # NIL
  /\ stack = Tail(obs.pre.stack)

\* a float loop with a step of a half has gone round again
C28_FloatRound ==
  /\ NextRan
  /\ obs.pre.stack[1].itemtype = "STACK_FLOATFOR"
  /\ obs.pre.stack[1].step = 1
  /\ varlists["F"] = 4
  /\ current = 2


(***************************************************************************)
(* CASE: the first WHEN that lists the value                               *)
(***************************************************************************)
\* CASE has run: the value of its expression is obs.input
CaseRan ==
  JustRan({"BASIC_TOKEN_XCASE", "BASIC_TOKEN_CASE"})

\* the WHENs in the table of the CASE, by their place in the program
CaseWhens ==
  LET whentable == program[obs.pc].table.whentable
  IN  {whentable[n].whenexpr : n \in DOMAIN whentable}

\* the two values are both numbers or both strings
Comparable(a, b) == ValueIn(obs.pre, a).isnumber = ValueIn(obs.pre, b).isnumber

\* a value of a WHEN equal to the value of the CASE: two numbers that are
\* equal, an integer taken as the float it converts to, or two strings of the
\* same length and bytes
MatchAt(w, j) ==
  ValueIn(obs.pre, obs.pre.program[w].values[j]) = ValueIn(obs.pre, obs.input)

WhenMatches(w) == \E j \in DOMAIN obs.pre.program[w].values : MatchAt(w, j)

\* the first WHEN that lists the value
FirstMatch ==
  CHOOSE w \in CaseWhens : WhenMatches(w) /\ \A u \in CaseWhens : WhenMatches(u) => w <= u

\* every value that is compared before the first match is found is of the
\* kind of the value of the CASE
ComparableUpToMatch ==
  /\ \A u \in CaseWhens : u < FirstMatch =>
       \A j \in DOMAIN obs.pre.program[u].values :
         Comparable(obs.pre.program[u].values[j], obs.input)
  /\ \A j \in DOMAIN obs.pre.program[FirstMatch].values :
       (\A i \in 1..(j - 1) : ~MatchAt(FirstMatch, i)) =>
         Comparable(obs.pre.program[FirstMatch].values[j], obs.input)

\* C29: when a WHEN of the CASE lists a value equal to the value of the CASE
\* expression, CASE goes to the statements of the first such WHEN in the
\* order of the program, whatever integer types the two values have, a float
\* against an integer included.  The values of the WHENs after it are not looked at: no error is
\* raised for one of another kind, and no string is made for one.
C29_FirstMatchingWhen ==
  (/\ CaseRan
   /\ \E w \in CaseWhens : WhenMatches(w)
   /\ ComparableUpToMatch)
    => /\ errnum = "none"
       /\ current = FirstMatch + 1
       /\ ValueIn(obs.pre, obs.input).isnumber => strheap = obs.pre.strheap

\* a uint8 value has been matched by a 64-bit integer of the first WHEN where
\* later WHENs list strings
C29_Witness ==
  /\ CaseRan
  /\ obs.pre.program = ProgCaseFirst
  /\ obs.input = TV("STACK_UINT8", 7)
  /\ current = 3
  /\ errnum = "none"

\* a float value has been matched by the third value of the second WHEN
C29_FloatSecondWhen ==
  /\ CaseRan
  /\ obs.pre.program = ProgCaseFirst
  /\ obs.input = TV("STACK_FLOAT", 4)
  /\ FirstMatch = 4 /\ current = 5

\* the value 3 is listed by the second WHEN and by the third
C29_EarlierOfTwo ==
  /\ CaseRan
  /\ obs.pre.program = ProgCaseFirst
  /\ obs.input = TV("STACK_INT64", 3)
  /\ WhenMatches(4) /\ WhenMatches(6)
  /\ current = 5

\* a string has been matched by the second value of a WHEN
C29_StringMatched ==
  /\ CaseRan
  /\ obs.input.itemtype = "STACK_STRTEMP"
  /\ \E w \in CaseWhens : WhenMatches(w)
  /\ ComparableUpToMatch
  /\ MatchAt(FirstMatch, 1)
  /\ current = FirstMatch + 1


(***************************************************************************)
(* WHILE with a condition that is false on entry                           *)
(***************************************************************************)
WhileTokens == {"BASIC_TOKEN_XWHILE", "BASIC_TOKEN_WHILE"}

\* WHILE has run and its condition was false
WhileSkipped ==
  /\ JustRan(WhileTokens)
  /\ obs.input = TV("STACK_INT", 0)

\* the WHILEs opened less the ENDWHILEs met from the statement after 'a' up
\* to statement i
WhileDepth(prog, a, i) ==
  Cardinality({k \in (a + 1)..i : prog[k].token \in WhileTokens})
  - Cardinality({k \in (a + 1)..i : prog[k].token = "BASIC_TOKEN_ENDWHILE"})

\* the ENDWHILE of the WHILE at 'a': the first ENDWHILE after it that closes
\* more loops than were opened since 'a'
MatchingEndwhile(prog, a) ==
  {e \in (a + 1)..Len(prog) :
     /\ prog[e].token = "BASIC_TOKEN_ENDWHILE"
     /\ WhileDepth(prog, a, e) = -1
     /\ \A k \in (a + 1)..(e - 1) : WhileDepth(prog, a, k) >= 0}

\* the statement after the ENDWHILE of the WHILE that has run, in the
\* program as it is now
AfterEndwhile == 1 + CHOOSE e \in MatchingEndwhile(program, obs.pc) : TRUE

\* C30: a WHILE whose condition is false on entry leaves the stack as it
\* was.  When the program has an ENDWHILE at the WHILE's own depth the
\* cursor goes to the statement after it, and that is the destination the
\* WHILE token then holds, at the first skip and at every later one.  When
\* there is none, 'ENDWHILE missing' is raised and the program is left as it
\* was: no destination is kept.
C30_FalseWhileSkips ==
  WhileSkipped =>
    /\ stack = obs.pre.stack
    /\ stacktop = obs.pre.stacktop
    /\ IF MatchingEndwhile(obs.pre.program, obs.pc) # {}
       THEN /\ errnum = "none"
            /\ current = AfterEndwhile
            /\ program[obs.pc].token = "BASIC_TOKEN_WHILE"
            /\ program[obs.pc].dest = AfterEndwhile
            /\ \A a \in DOMAIN program : a # obs.pc => program[a] = obs.pre.program[a]
       ELSE /\ errnum = "ERR_ENDWHILE"
            /\ program = obs.pre.program

\* the outer WHILE has been skipped for the first time over an inner WHILE
\* that holds its destination already
C30_Witness ==
  /\ WhileSkipped
  /\ obs.pre.program[obs.pc].token = "BASIC_TOKEN_XWHILE"
  /\ obs.pre.program[obs.pc + 1].token = "BASIC_TOKEN_WHILE"
  /\ MatchingEndwhile(program, obs.pc) = {obs.pc + 3}
  /\ current = obs.pc + 4

\* a WHILE has been skipped again, by the destination it holds
C30_LaterSkip ==
  /\ WhileSkipped
  /\ obs.pre.program[obs.pc].token = "BASIC_TOKEN_WHILE"
  /\ current = obs.pre.program[obs.pc].dest
  /\ current = AfterEndwhile

\* the search has met a nested WHILE and its ENDWHILE and then the end of
\* the program
C30_EndwhileMissing ==
  /\ WhileSkipped
  /\ obs.pre.program[obs.pc + 1].token \in WhileTokens
  /\ errnum = "ERR_ENDWHILE"
  /\ program[obs.pc].token = "BASIC_TOKEN_XWHILE"
  /\ program[obs.pc].dest = NIL


(***************************************************************************)
(* Block IF: the two searches for the end of the IF                        *)
(***************************************************************************)
ElseTokens == {"BASIC_TOKEN_XLHELSE", "BASIC_TOKEN_LHELSE"}

\* a THEN is the last token of the line, at statement tp or after it
ThenEndsLine(prog, tp) ==
  \E i \in tp..(NextLine(prog, tp) - 1) :
    prog[i].token \in IfTokens /\ prog[i].block

\* The search with the nesting counted line by line: an ENDIF that starts
\* the line closes a block, a THEN that ends the line opens one, whatever
\* the line starts with.  With orElse an ELSE that starts a line at depth 1
\* ends the search too.  The result is the statement to go on with, NIL
\* when the program ends first.
RECURSIVE ThenScan(_, _, _, _)
ThenScan(prog, lp, depth, orElse) ==
  IF lp > Len(prog) THEN NIL
  ELSE IF orElse /\ depth = 1 /\ prog[lp].token \in ElseTokens THEN lp + 1
  ELSE With(depth - (IF prog[lp].token = "BASIC_TOKEN_ENDIF" THEN 1 ELSE 0)
                  + (IF ThenEndsLine(prog, lp) THEN 1 ELSE 0),
            LAMBDA d :
         IF d = 0 THEN lp + 1
         ELSE With(NextLine(prog, lp), LAMBDA n : ThenScan(prog, n, d, orElse)))

\* a block IF has run for the first time, its condition was false and its
\* ELSE or ENDIF was found
BlockIfSkipped ==
  /\ JustRan({"BASIC_TOKEN_XIF"})
  /\ Executed.block
  /\ obs.input = TV("STACK_INT", 0)
  /\ errnum = "none"

\* the ELSE of a block IF has run for the first time and its ENDIF was found
BlockElseRan ==
  /\ JustRan({"BASIC_TOKEN_XLHELSE"})
  /\ errnum = "none"

\* C31: the search of a block IF for its ELSE or ENDIF and the search of
\* the ELSE of a block IF for its ENDIF both count every line that ends
\* with THEN as the start of a nested block, whatever token the line starts
\* with: each goes on where the search with that count ends.
C31_ScansCountAlike ==
  /\ BlockIfSkipped =>
       current = ThenScan(obs.pre.program, NextLine(obs.pre.program, obs.pc),
                          1, TRUE)
  /\ BlockElseRan => current = ThenScan(obs.pre.program, obs.pc, 1, FALSE)

\* the search of the ELSE counts in that way
C31_ElseCountsEveryThen ==
  BlockElseRan => current = ThenScan(obs.pre.program, obs.pc, 1, FALSE)

\* the IF of line 10 of ProgIfCascade has taken the ENDIF of line 70, which
\* closes the IF of line 20, for its own: the program goes on at the ELSE
\* of line 80 and not after it
C31_IfTakesInnerEndif ==
  /\ BlockIfSkipped
  /\ obs.pre.program = ProgIfCascade
  /\ obs.pc = 1
  /\ current = 9
  /\ program[current].token = "BASIC_TOKEN_XLHELSE"
  /\ ThenScan(obs.pre.program, 2, 1, TRUE) = 10

\* in ProgIfAfterEndif it has taken the ENDIF of line 40 for its own
C31_IfTakesEndifAfterThen ==
  /\ BlockIfSkipped
  /\ obs.pre.program = ProgIfAfterEndif
  /\ obs.pc = 1
  /\ current = 6
  /\ ThenScan(obs.pre.program, 2, 1, TRUE) = 7

\* the ELSE of line 30 of ProgIfElseCascade has found the ENDIF of line 80
\* over the cascade of lines 40 to 70
C31_ElseOverCascade ==
  /\ BlockElseRan
  /\ Len(program) = Len(ProgIfElseCascade)
  /\ obs.pc = 3
  /\ obs.pre.program[5].token = "BASIC_TOKEN_XLHELSE"
  /\ ThenEndsLine(obs.pre.program, 5)
  /\ current = 10

\* an IF with no line between it and its ELSE or ENDIF that starts with
\* ELSE or ENDIF and ends with THEN goes on where the count says
C31_PlainNestingAgrees ==
  (/\ BlockIfSkipped
   /\ \A k \in DOMAIN obs.pre.program :
        obs.pre.program[k].token \in ElseTokens \cup {"BASIC_TOKEN_ENDIF"}
          => ~ThenEndsLine(obs.pre.program, k))
    => current = ThenScan(obs.pre.program, NextLine(obs.pre.program, obs.pc),
                          1, TRUE)

(***************************************************************************)
(* LOCAL DATA and RESTORE DATA                                             *)
(***************************************************************************)
RestoreDataRan ==
  /\ JustRan({"BASIC_TOKEN_RESTORE"})
  /\ Executed.what = "BASIC_TOKEN_DATA"

DataOnTop == Head(obs.pre.stack).itemtype = "STACK_DATA"

\* the READ and RESTORE <line> statements between LOCAL DATA and RESTORE
\* DATA moved the pointer away from where it was
CursorMoved == obs.pre.datacur # datacur

\* C33: RESTORE DATA puts the DATA pointer back to where it was at LOCAL
\* DATA, so that the next READ is given the field, or the 'out of data'
\* error, it would have been given then; with no DATA block on top of the
\* stack RESTORE DATA raises an error and changes nothing
C33_RestoreDataReturnsCursor ==
  RestoreDataRan =>
    IF DataOnTop
    THEN /\ errnum = "none"
         /\ NextRead(basicvars) = obs.datasp[obs.pre.stacktop]
    ELSE /\ errnum = "ERR_DATANOTOP"
         /\ datacur = obs.pre.datacur
         /\ outofdata = obs.pre.outofdata
         /\ stack = obs.pre.stack
         /\ stacktop = obs.pre.stacktop

\* C33: the pointer itself is put back: RESTORE DATA leaves the next READ
\* the field it had at LOCAL DATA whenever the 'out of data' flag is as it
\* was then
C33_PointerRestored ==
  RestoreDataRan /\ DataOnTop =>
    /\ errnum = "none"
    /\ datacur = Head(obs.pre.stack).address
    /\ outofdata = obs.pre.outofdata
    /\ stack = Tail(obs.pre.stack)
    /\ (NextRead([basicvars EXCEPT !.outofdata = FALSE])
          # obs.datasp[obs.pre.stacktop]
        => outofdata \/ obs.datasp[obs.pre.stacktop].line = NIL)

\* C33: with no DATA block on top RESTORE DATA is an error and nothing moves
C33_NoDataOnTop ==
  RestoreDataRan /\ ~DataOnTop =>
    /\ errnum = "ERR_DATANOTOP"
    /\ datacur = obs.pre.datacur
    /\ outofdata = obs.pre.outofdata
    /\ stack = obs.pre.stack

\* C33: RESTORE DATA has brought the pointer back over the READs and the
\* RESTORE <line> that ran since LOCAL DATA
C33_RestoredOverReads ==
  /\ RestoreDataRan /\ DataOnTop /\ CursorMoved
  /\ NextRead(basicvars) = obs.datasp[obs.pre.stacktop]
  /\ NextRead(basicvars).field = 2

\* C33: RESTORE <line> ran out of DATA after LOCAL DATA, and after RESTORE
\* DATA the READ that would have been given a field raises 'out of data'
C33_StillOutOfData ==
  /\ RestoreDataRan /\ DataOnTop
  /\ outofdata
  /\ obs.datasp[obs.pre.stacktop].line # NIL

C33_ReadFailsAfterRestore ==
  /\ JustRan({"BASIC_TOKEN_READ"})
  /\ errnum = "ERR_DATA"
  /\ \E a \in DOMAIN obs.datasp : obs.datasp[a].line # NIL
  /\ Len(program) = Len(ProgReadPastData)

\* C33: there was no DATA left at LOCAL DATA, and after RESTORE DATA the
\* next READ is given a field
C33_ReadGivenField ==
  /\ RestoreDataRan /\ DataOnTop
  /\ ~outofdata
  /\ obs.datasp[obs.pre.stacktop].line = NIL
  /\ NextRead(basicvars).line # NIL

C33_RestoreWithoutData ==
  /\ RestoreDataRan /\ ~DataOnTop
  /\ errnum = "ERR_DATANOTOP"

(***************************************************************************)
(* The error handler after a return from a PROC or an FN                   *)
(***************************************************************************)
ReturnRan ==
  /\ JustRan({"BASIC_TOKEN_ENDPROC", "="})
  /\ errnum = "none"
  /\ obs.pre.procstack # NIL

\* the ERROR blocks the subprogram has on the stack when it returns, and
\* the one it pushed first
ReturnErrors == OwnErrors(obs.pre.stack, obs.pre.procstack)

FirstPushed == CHOOSE i \in ReturnErrors : \A j \in ReturnErrors : j <= i

\* the stack after the return: what lay below the return block, less the
\* saved parameters, and for an FN the result on top of it
IsSuffix(s, whole) ==
  Len(s) <= Len(whole) /\ s = SubSeq(whole, Len(whole) - Len(s) + 1, Len(whole))

ReturnedBelow ==
  LET below == SelectSeq(obs.pre.stack,
                         LAMBDA b : "addr" \in DOMAIN b /\ b.addr > obs.pre.procstack)
               \o <<[itemtype |-> "STACK_UNKNOWN"]>> IN
  IF Executed.token = "=" THEN IsSuffix(Tail(stack), below)
  ELSE IsSuffix(stack, below)

\* C34 as stated: a PROC or FN that has ERROR blocks of its own on the
\* stack returns, and the error handler is the one that was in force when
\* it was entered
C34_HandlerOfEntry ==
  ReturnRan /\ ReturnErrors # {} =>
    error_handler = obs.entry[obs.pre.procstack].handler

\* C34: when a PROC or FN returns by ENDPROC or '=', every ERROR block it
\* pushed is gone from the stack and the error handler is the one saved in
\* the first of them; that is the handler in force when the subprogram was
\* entered unless an ON ERROR without LOCAL, or ON ERROR OFF, ran in the
\* subprogram or in one it called while the subprogram had no ERROR block
\* on the stack
C34_HandlerRestored ==
  ReturnRan =>
    /\ ReturnedBelow
    /\ \A i \in DOMAIN stack :
         stack[i].itemtype = "STACK_ERROR" => stack[i].addr > obs.pre.procstack
    /\ ReturnErrors # {} =>
         error_handler = obs.pre.stack[FirstPushed].handler
    /\ ~obs.entry[obs.pre.procstack].changed =>
         error_handler = obs.entry[obs.pre.procstack].handler

\* a PROC with three ERROR blocks of its own returns to the handler of its
\* caller
C34_Witness ==
  /\ ReturnRan
  /\ Cardinality(ReturnErrors) = 3
  /\ ~obs.entry[obs.pre.procstack].changed
  /\ error_handler = obs.entry[obs.pre.procstack].handler
  /\ error_handler # obs.pre.error_handler
  /\ error_handler.current # NIL

\* C34: the same for an FN, entered with a handler in force
C34_FnReturned ==
  /\ ReturnRan
  /\ Executed.token = "="
  /\ ReturnErrors # {}
  /\ error_handler = obs.entry[obs.pre.procstack].handler
  /\ error_handler # obs.pre.error_handler

\* C34: ON ERROR without LOCAL ran before the LOCAL ERROR of the PROC, and
\* the handler it installed is in force after ENDPROC
C34_GlobalStays ==
  /\ ReturnRan
  /\ ReturnErrors # {}
  /\ obs.entry[obs.pre.procstack].changed
  /\ error_handler # obs.entry[obs.pre.procstack].handler

(***************************************************************************)
(* UNTIL, ENDWHILE and NEXT inside a subprogram                            *)
(***************************************************************************)
CloserTokens == {"BASIC_TOKEN_UNTIL", "BASIC_TOKEN_ENDWHILE", "BASIC_TOKEN_NEXT"}

ReturnKinds == {"STACK_PROC", "STACK_FN", "STACK_GOSUB"}

LoopKinds == {"STACK_WHILE", "STACK_REPEAT", "STACK_INTFOR", "STACK_INT64FOR",
              "STACK_FLOATFOR"}

\* the kinds of block the statement that ran looks for, and its error
CloserKinds ==
  CASE Executed.token = "BASIC_TOKEN_UNTIL" -> {"STACK_REPEAT"}
    [] Executed.token = "BASIC_TOKEN_ENDWHILE" -> {"STACK_WHILE"}
    [] OTHER -> {"STACK_INTFOR", "STACK_INT64FOR", "STACK_FLOATFOR"}

CloserError ==
  CASE Executed.token = "BASIC_TOKEN_UNTIL" -> "ERR_NOTREPEAT"
    [] Executed.token = "BASIC_TOKEN_ENDWHILE" -> "ERR_NOTWHILE"
    [] OTHER -> "ERR_NOTFOR"

\* the return blocks on a stack, by their addresses
ReturnFrames(s) ==
  {s[i].addr : i \in {j \in DOMAIN s : s[j].itemtype \in ReturnKinds}}

\* the statement ran inside a subprogram that has no loop of its kind open:
\* above the topmost return block there is no block it looks for
NoLoopInSubprogram ==
  /\ ReturnFrames(obs.pre.stack) # {}
  /\ \A i \in DOMAIN obs.pre.stack :
       obs.pre.stack[i].itemtype \in CloserKinds
       => \E j \in 1..(i - 1) : obs.pre.stack[j].itemtype \in ReturnKinds

\* C35: UNTIL, ENDWHILE and NEXT leave every PROC, FN and GOSUB return
\* block on the stack and the chains of calls as they were, and inside a
\* subprogram that has no loop of their kind open they raise 'not in a loop'
C35_ClosersKeepReturnFrames ==
  JustRan(CloserTokens) =>
    /\ ReturnFrames(obs.pre.stack) \subseteq ReturnFrames(stack)
    /\ procstack = obs.pre.procstack
    /\ gosubstack = obs.pre.gosubstack
    /\ NoLoopInSubprogram => errnum = CloserError

\* C35: what the statements do leave alone is the blocks of loops: the
\* statement that raises its error has discarded none (but NEXT with a
\* variable the FOR blocks of other variables), and has left no return
\* block on top
C35_ClosersKeepLoops ==
  JustRan(CloserTokens) /\ errnum = CloserError =>
    /\ \A i \in DOMAIN obs.pre.stack :
         /\ obs.pre.stack[i].itemtype \in LoopKinds
         /\ (Executed.token = "BASIC_TOKEN_NEXT"
              => obs.pre.stack[i].itemtype \in {"STACK_WHILE", "STACK_REPEAT"})
         => \E j \in DOMAIN stack : stack[j] = obs.pre.stack[i]
    /\ Head(stack).itemtype \notin ReturnKinds

\* C35: with no loop open anywhere the statement raises its error, and the
\* return block of the subprogram it ran in has been discarded
C35_ErrorAndFrameGone ==
  /\ JustRan(CloserTokens)
  /\ NoLoopInSubprogram
  /\ errnum = CloserError
  /\ ReturnFrames(stack) = {}
  /\ obs.pre.procstack # NIL /\ procstack = NIL

\* C35: with a loop open in the caller the statement discards the return
\* block, raises no error and goes on with the loop of the caller
C35_LoopOfCaller ==
  /\ JustRan(CloserTokens)
  /\ NoLoopInSubprogram
  /\ errnum = "none"
  /\ ReturnFrames(stack) = {}
  /\ obs.pre.procstack # NIL /\ procstack = NIL

C35_GosubGone ==
  /\ JustRan({"BASIC_TOKEN_UNTIL"})
  /\ NoLoopInSubprogram
  /\ obs.pre.gosubstack # NIL /\ gosubstack = NIL

C35_FnGone ==
  /\ JustRan({"BASIC_TOKEN_ENDWHILE"})
  /\ NoLoopInSubprogram
  /\ Head(obs.pre.stack).itemtype = "STACK_LOCAL"
  /\ \E i \in DOMAIN obs.pre.stack : obs.pre.stack[i].itemtype = "STACK_FN"
  /\ procstack = NIL

(***************************************************************************)
(* The heads of the chains of calls                                        *)
(***************************************************************************)
\* the address of the topmost block of one of 'kinds' on the stack, or NIL
TopmostOf(kinds) ==
  LET blocks == {i \in DOMAIN stack : stack[i].itemtype \in kinds} IN
  IF blocks = {} THEN NIL
  ELSE stack[CHOOSE i \in blocks : \A j \in blocks : i <= j].addr

HeadsAtTop ==
  /\ procstack = TopmostOf({"STACK_PROC", "STACK_FN"})
  /\ gosubstack = TopmostOf({"STACK_GOSUB"})

\* C36 as stated: in every state procstack is the address of the topmost
\* PROC or FN return block on the stack, and NIL when there is none, and
\* gosubstack is the address of the topmost GOSUB block, and NIL when there
\* is none
C36_ChainHeads == HeadsAtTop

\* C36: while the program runs, procstack is the address of the topmost
\* PROC or FN return block on the stack and gosubstack that of the topmost
\* GOSUB block, each NIL when there is none; END makes both NIL and leaves
\* the stack as it is
C36_ChainHeadsRunning ==
  /\ current # NIL => HeadsAtTop
  /\ current = NIL =>
       /\ procstack = NIL /\ gosubstack = NIL
       /\ obs.pc # NIL => stack = obs.pre.stack

\* a return from a PROC called inside an FN has put the head of the chain
\* back to the return block of the FN
C36_Witness ==
  /\ JustRan({"BASIC_TOKEN_ENDPROC"})
  /\ errnum = "none"
  /\ current # NIL
  /\ procstack # NIL
  /\ procstack > obs.pre.procstack
  /\ procstack = TopmostOf({"STACK_FN"})

\* C36: UNTIL, ENDWHILE or NEXT has discarded a GOSUB block and the head of
\* the chain is the GOSUB block below it
C36_CloserRelinks ==
  /\ JustRan(CloserTokens)
  /\ gosubstack # obs.pre.gosubstack
  /\ HeadsAtTop

\* C36: an error was trapped inside a subprogram and the reset of the stack
\* has left the heads of the chains at the blocks that remain
C36_ResetRelinks ==
  /\ obs.caught
  /\ procstack # obs.pre.procstack
  /\ HeadsAtTop

\* C36: END inside a subprogram: the return block is on the stack and the
\* head of the chain is NIL
C36_EndInSubprogram ==
  /\ JustRan({"BASIC_TOKEN_END"})
  /\ obs.pre.procstack # NIL
  /\ procstack = NIL
  /\ TopmostOf({"STACK_PROC", "STACK_FN"}) # NIL

(***************************************************************************)
(* NEXT at the end of the range of a 32-bit control variable               *)
(***************************************************************************)
\* NEXT without a variable has stepped the 32-bit loop on top of the stack,
\* whose step is above zero
IntNextRan ==
  /\ JustRan({"BASIC_TOKEN_NEXT"})
  /\ errnum = "none"
  /\ Executed.nextvars = <<>>
  /\ Head(obs.pre.stack).itemtype = "STACK_INTFOR"
  /\ Head(obs.pre.stack).forvar.typeinfo = "VAR_INTWORD"
  /\ Head(obs.pre.stack).step > 0

ForBefore == obs.pre.varlists[Head(obs.pre.stack).forvar.address]

ForAfter == varlists[Head(obs.pre.stack).forvar.address]

LoopGoesOn ==
  /\ current = Head(obs.pre.stack).foraddr
  /\ stack = obs.pre.stack

\* C37: NEXT never takes the control variable of a 32-bit loop with a step
\* above zero round to a value that is within the limit again: the loop
\* goes on only with a value above the one before and not above the
\* limit, so that it ends after finitely many rounds
C37_IntForTerminates ==
  IntNextRan =>
    /\ ForAfter > ForBefore
    /\ LoopGoesOn => ForAfter <= Head(obs.pre.stack).limit

\* C37: short of the end of the range NEXT is as the claim says: when the
\* sum does not overflow the value goes up, and the loop goes on exactly
\* when the value is not above the limit
C37_WithinRange ==
  IntNextRan /\ ~Overflows32(ForBefore, Head(obs.pre.stack).step) =>
    /\ ForAfter = ForBefore + Head(obs.pre.stack).step
    /\ LoopGoesOn <=> ForAfter <= Head(obs.pre.stack).limit

\* C37: FOR I%=2147483646 TO 2147483647: the NEXT after the round with
\* I%=2147483647 has made I% -2147483648 and the loop goes on
C37_WrappedRound ==
  /\ IntNextRan
  /\ ForBefore = 2147483647
  /\ Head(obs.pre.stack).limit = 2147483647
  /\ ForAfter = -2147483647 - 1
  /\ LoopGoesOn

\* C37: and it goes on from there, round after round
C37_RoundsAfterWrap ==
  /\ IntNextRan
  /\ ForBefore = -2147483647 - 1
  /\ ForAfter = -2147483647
  /\ LoopGoesOn

\* C37: the same with a limit below 2147483647 and a step above 1
C37_WrappedStep ==
  /\ IntNextRan
  /\ Head(obs.pre.stack).limit = 2147483645
  /\ Head(obs.pre.stack).step = 10
  /\ ForAfter < 0
  /\ LoopGoesOn

\* C37: FOR I%=2147483645 TO 2147483646 ends with I%=2147483647
C37_EndsBelowMax ==
  /\ IntNextRan
  /\ ForAfter = 2147483647
  /\ ~LoopGoesOn
  /\ Head(stack).itemtype = "STACK_UNKNOWN"

(***************************************************************************)
(* A block IF with no ELSE or ENDIF, executed again                        *)
(***************************************************************************)
\* a block IF with no ELSE or ENDIF after it has run with a false condition
OpenIfFalse ==
  /\ OpenIfRan
  /\ obs.input.value = 0

\* C38: a block IF with no ELSE or ENDIF before the end of the program
\* raises ERR_ENDIF each time it is executed with a false condition, also
\* after an execution with a true condition has resolved its token
C38_OpenIfRaisesEachTime ==
  OpenIfFalse => errnum = "ERR_ENDIF"

\* C38: the first execution, of the unresolved token, raises the error
C38_FirstExecutionRaises ==
  OpenIfFalse /\ Executed.token = "BASIC_TOKEN_XIF" => errnum = "ERR_ENDIF"

\* C38: an execution of the resolved token never does: it goes on at the
\* address stored for the ELSE part, the end of the program
C38_ResolvedNeverRaises ==
  OpenIfFalse /\ Executed.token = "BASIC_TOKEN_BLOCKIF" =>
    /\ errnum = "none"
    /\ current = Executed.elsedest
    /\ current = Len(program) + 1

\* C38: the IF of ProgIfOpen was true in the first round of the loop and is
\* false in the second: no error, and the program is at its end
C38_SecondRoundSilent ==
  /\ OpenIfFalse
  /\ Executed.token = "BASIC_TOKEN_BLOCKIF"
  /\ varlists["I%"] = 2
  /\ errnum = "none"
  /\ current = Len(program) + 1

C38_FirstRoundRaises ==
  /\ OpenIfFalse
  /\ Executed.token = "BASIC_TOKEN_XIF"
  /\ varlists["I%"] = 1
  /\ errnum = "ERR_ENDIF"

\* The statement just run was the first call from its place, and it has
\* found a DEF
CallResolved ==
  /\ JustRan({"BASIC_TOKEN_XFNPROCALL"})
  /\ program[obs.pc].token = "BASIC_TOKEN_FNPROCALL"

\* the DEFs of the name just called
DefsOf(name) ==
  {i \in DOMAIN program :
     program[i].token = "BASIC_TOKEN_DEF" /\ program[i].name = name}

\* C39: a call of a PROC or FN whose name has more than one DEF in the
\* program is resolved to the first of these DEFs in the order of the
\* program, whatever was called before it.
C39_CallsFirstDef ==
  CallResolved => program[obs.pc].dest = FindDef(program, Executed.name)

\* a call of a name with one DEF is resolved to that DEF
C39_OneDef ==
  CallResolved /\ Cardinality(DefsOf(Executed.name)) = 1 =>
    program[obs.pc].dest = FindDef(program, Executed.name)

\* a call is resolved to the DEF of the newest entry of the name: the last
\* DEF of the name that the search had passed
C39_CallsNewestEntry ==
  CallResolved =>
    /\ program[obs.pc].dest = FnprocEntry(basicvars, Executed.name).varmarker
    /\ \A i \in DefsOf(Executed.name) :
         i < lastsearch => i <= program[obs.pc].dest

\* PROCb was called first and the search for it passed both DEFs of PROCa:
\* the call of PROCa is resolved to the second
C39_SecondDefCalled ==
  /\ CallResolved
  /\ Cardinality(DefsOf("PROCa")) = 2
  /\ program[1].name = "PROCb"
  /\ Executed.name = "PROCa"
  /\ program[obs.pc].dest # FindDef(program, "PROCa")

\* PROCa was called first and PROCb after it: two calls of PROCa in one
\* program are resolved to different DEFs
C39_TwoCallsTwoDefs ==
  /\ CallResolved
  /\ \E i \in DOMAIN program :
       /\ i # obs.pc
       /\ program[i].token = "BASIC_TOKEN_FNPROCALL"
       /\ program[i].name = Executed.name
       /\ program[i].dest = FindDef(program, Executed.name)
       /\ program[obs.pc].dest # program[i].dest

\* The statement just run was a READ of a numeric variable, or a call that
\* had the parameter list of its DEF to scan
ReadNumericRan ==
  /\ JustRan({"BASIC_TOKEN_READ"})
  /\ Executed.dests # <<>>
  /\ ~obs.pre.outofdata
  /\ \A i \in DOMAIN Executed.dests :
       TypeMasked(Executed.dests[i].typeinfo)
         \in {"VAR_INTWORD", "VAR_INTLONG", "VAR_FLOAT", "VAR_UINT8"}

ParmlistScanned ==
  /\ JustRan({"BASIC_TOKEN_XFNPROCALL"})
  /\ Executed.name \in DOMAIN varlists
  /\ \/ Executed.name \notin DOMAIN obs.pre.varlists
     \/ Head(obs.pre.varlists[Executed.name]).varflags = "VAR_MARKER"

\* C40: curcount, the number of saved values of current, is within
\* 0..MAXCURCOUNT, and a numeric READ or the scan of a parameter list leaves
\* it as it found it, whether it succeeds or raises an error.
C40_CurcountBalanced ==
  /\ curcount \in 0..MAXCURCOUNT
  /\ ReadNumericRan \/ ParmlistScanned => curcount = obs.pre.curcount

\* curcount is within 0..MAXCURCOUNT
C40_CurcountInRange == curcount \in 0..MAXCURCOUNT

\* a numeric READ and the scan of a parameter list that succeed leave
\* curcount as they found it
C40_BalancedOnSuccess ==
  (ReadNumericRan \/ ParmlistScanned) /\ errnum = "none" =>
    curcount = obs.pre.curcount

\* an error raised between save_current and restore_current leaves curcount
\* one higher, and every other error leaves it as it was
C40_ErrorLeavesOneMore ==
  (ReadNumericRan \/ ParmlistScanned) /\ errnum # "none" =>
    curcount = IF errnum \in {"ERR_DIVZERO", "ERR_SYNTAX"}
               THEN obs.pre.curcount + 1 ELSE obs.pre.curcount

\* the expression of a DATA field has raised an error in a READ: curcount is
\* one higher than before the READ
C40_ReadLeavesOneMore ==
  /\ ReadNumericRan
  /\ errnum = "ERR_DIVZERO"
  /\ curcount = obs.pre.curcount + 1

\* a DEF with no body after it: the scan of its parameter list has raised
\* an error and curcount is one higher than before the call
C40_ScanLeavesOneMore ==
  /\ ParmlistScanned
  /\ errnum = "ERR_SYNTAX"
  /\ curcount = obs.pre.curcount + 1

\* after MAXCURCOUNT trapped errors in READ the next READ finds no place to
\* save current
C40_ReadExhausted ==
  /\ ReadNumericRan
  /\ obs.pre.curcount = MAXCURCOUNT
  /\ errnum = "ERR_OPSTACK"

\* and so does the next call after MAXCURCOUNT trapped errors in the scan
C40_ScanExhausted ==
  /\ ParmlistScanned
  /\ obs.pre.curcount = MAXCURCOUNT
  /\ errnum = "ERR_OPSTACK"

\* a READ has read a number and curcount is as before
C40_ReadBalanced ==
  /\ ReadNumericRan
  /\ errnum = "none"
  /\ curcount = obs.pre.curcount

(***************************************************************************)
(* The stack on its own: pushes of numeric entries and pops of every kind  *)
(* in any order.                                                           *)
(***************************************************************************)
MaxDepth == 3

Uint8Values == {0, 255}

IntValues == {-2147483647, 300}

Int64Values == {2147483647, -70000}

FloatValues == {3, -5}

ArraySizes == {5}

noop == [op |-> "none", kind |-> "none", val |-> 0, sp |-> 0, top |-> "none"]

\* the entries that each pop is for
Expected(kind) ==
  CASE kind = "int" -> {"STACK_INT"} [] kind = "uint8" -> {"STACK_UINT8"}
    [] kind = "int64" -> {"STACK_INT64"} [] kind = "float" -> {"STACK_FLOAT"}
    [] kind = "string" -> {"STACK_STRING", "STACK_STRTEMP"}
    [] kind = "array" ->
         {"STACK_INTARRAY", "STACK_UINT8ARRAY", "STACK_INT64ARRAY",
          "STACK_FLOATARRAY", "STACK_STRARRAY"}
    [] kind = "arraytemp" ->
         {"STACK_IATEMP", "STACK_U8ATEMP", "STACK_I64ATEMP", "STACK_FATEMP",
          "STACK_SATEMP"}
    [] kind = "proc" -> {"STACK_PROC"} [] kind = "fn" -> {"STACK_FN"}
    [] kind = "gosub" -> {"STACK_GOSUB"} [] kind = "while" -> {"STACK_WHILE"}
    [] kind = "repeat" -> {"STACK_REPEAT"} [] kind = "for" -> ForBlocks
    [] kind = "data" -> {"STACK_DATA"} [] kind = "error" -> {"STACK_ERROR"}
    [] OTHER -> {}

\* the pops that do not look at the tag
UncheckedPops ==
  {"string", "array", "arraytemp", "while", "repeat", "for", "data", "error"}

\* The last operation was not a pop that stepped over an entry of another
\* kind: the stack pointer is at an entry
Aligned ==
  ~(/\ obs.last.op = "pop"
    /\ obs.last.kind \in UncheckedPops
    /\ obs.last.top \notin Expected(obs.last.kind))

StackRoom == Len(stack) <= MaxDepth /\ errnum = "none" /\ Aligned

Observe(op, kind, val) ==
  obs' = [last |-> [op |-> op, kind |-> kind, val |-> val, sp |-> stacktop,
                    top |-> GET_TOPITEM(basicvars)],
          prev |-> obs.last]

\* The room between the stack limit and the empty stack: the whole
\* workspace, or a few entries only, as it is deep inside nested calls
StackSpare == 24

StackLimits == {0, init_stack.safestack - StackSpare}

InitStack ==
  /\ \E limit \in StackLimits :
       StartBasicvars([init_stack EXCEPT !.stacklimit = limit])
  /\ obs = [last |-> noop, prev |-> noop]

DoPushInt ==
  /\ StackRoom
  /\ \E x \in IntValues :
       SetBasicvars(push_int(basicvars, x)) /\ Observe("push", "int", x)

DoPushUint8 ==
  /\ StackRoom
  /\ \E x \in Uint8Values :
       SetBasicvars(push_uint8(basicvars, x)) /\ Observe("push", "uint8", x)

DoPushInt64 ==
  /\ StackRoom
  /\ \E x \in Int64Values :
       SetBasicvars(push_int64(basicvars, x)) /\ Observe("push", "int64", x)

DoPushFloat ==
  /\ StackRoom
  /\ \E x \in FloatValues :
       SetBasicvars(push_float(basicvars, x)) /\ Observe("push", "float", x)

DoPushWhile ==
  /\ StackRoom
  /\ SetBasicvars(push_while(basicvars, 1)) /\ Observe("push", "while", 0)

DoSaveLocal ==
  /\ StackRoom
  /\ SetBasicvars(save_local(basicvars, "I%", 0)) /\ Observe("push", "local", 0)

DoAllocStackmem ==
  /\ StackRoom
  /\ \E size \in ArraySizes :
       /\ SetBasicvars(alloc_descriptor(basicvars, size))
       /\ Observe("push", "locarray", size)

DoPop(kind, r) ==
  /\ errnum = "none"
  /\ Aligned
  /\ SetBasicvars(r.m)
  /\ Observe("pop", kind, r.val)

DoPopInt == DoPop("int", pop_int(basicvars))

DoPopUint8 == DoPop("uint8", pop_uint8(basicvars))

DoPopInt64 == DoPop("int64", pop_int64(basicvars))

DoPopFloat == DoPop("float", pop_float(basicvars))

\* the pops of the other entries, with any entry but the lowest on top
DoPopBlock(kind, n) ==
  /\ errnum = "none"
  /\ Aligned
  /\ Len(stack) > 1
  /\ SetBasicvars(n)
  /\ Observe("pop", kind, 0)

DoPopString == DoPopBlock("string", pop_string(basicvars).m)

DoPopArray == DoPopBlock("array", pop_array(basicvars).m)

DoPopArraytemp == DoPopBlock("arraytemp", pop_arraytemp(basicvars).m)

DoPopProc == DoPopBlock("proc", pop_proc(basicvars).m)

DoPopFn == DoPopBlock("fn", pop_fn(basicvars).m)

DoPopGosub == DoPopBlock("gosub", pop_gosub(basicvars).m)

DoPopWhile == DoPopBlock("while", pop_while(basicvars))

DoPopRepeat == DoPopBlock("repeat", pop_repeat(basicvars))

DoPopFor == DoPopBlock("for", pop_for(basicvars))

DoPopData == DoPopBlock("data", pop_data(basicvars).m)

DoPopError == DoPopBlock("error", pop_error(basicvars).m)

\* After an error, or a pop that left the stack pointer inside an entry, the
\* stack is cleared before anything else runs.
DoClearStack ==
  /\ errnum # "none" \/ ~Aligned
  /\ SetBasicvars([clear_stack(basicvars) EXCEPT !.errnum = "none"])
  /\ obs' = [last |-> noop, prev |-> noop]

NextStack ==
  \/ DoPushInt \/ DoPushUint8 \/ DoPushInt64 \/ DoPushFloat
  \/ DoPushWhile \/ DoSaveLocal \/ DoAllocStackmem
  \/ DoPopInt \/ DoPopUint8 \/ DoPopInt64 \/ DoPopFloat
  \/ DoPopString \/ DoPopArray \/ DoPopArraytemp
  \/ DoPopProc \/ DoPopFn \/ DoPopGosub
  \/ DoPopWhile \/ DoPopRepeat \/ DoPopFor \/ DoPopData \/ DoPopError
  \/ DoClearStack

SpecStack == InitStack /\ [][NextStack]_vars

\* C1: a push_T(v) immediately followed by the pop_T of the same type gives
\* back v without an error and leaves the stack pointer where it was before
\* the push, for uint8, int32, int64 and float.
C1_PushPopRoundTrip ==
  (obs.prev.op = "push" /\ obs.last.op = "pop" /\ obs.prev.kind = obs.last.kind)
    => (errnum = "none" /\ obs.last.val = obs.prev.val /\ stacktop = obs.prev.sp)

\* an int64 pushed on top of other entries has been popped again
C1_Witness ==
  /\ obs.prev.op = "push" /\ obs.last.op = "pop"
  /\ obs.prev.kind = "int64" /\ obs.last.kind = "int64"
  /\ obs.last.val = 2147483647
  /\ Len(stack) > 2

\* a pop has been called with an entry on top that is not of its kind
PopMismatched ==
  /\ obs.last.op = "pop"
  /\ obs.last.top \notin Expected(obs.last.kind)

\* C14 as stated: every pop called with an entry of another kind on top
\* raises ERR_BROKEN and leaves the stack pointer where it was.
C14_PopMismatchBroken ==
  PopMismatched => errnum = "ERR_BROKEN" /\ stacktop = obs.last.sp

\* C14: called with an entry of another kind on top, pop_int, pop_uint8,
\* pop_int64 and pop_float raise ERR_BROKEN, and pop_proc, pop_fn and
\* pop_gosub raise ERR_ENDPROC, ERR_FNRETURN and ERR_RETURN, all four and all
\* three leaving the stack pointer where it was; the pops of strings, arrays,
\* WHILE, REPEAT, FOR, DATA and ERROR entries raise nothing and move the
\* stack pointer up by the size of the entry they are for.
C14_PopMismatchByKind ==
  PopMismatched =>
    CASE obs.last.kind \in {"int", "uint8", "int64", "float"} ->
           errnum = "ERR_BROKEN" /\ stacktop = obs.last.sp
      [] obs.last.kind = "proc" -> errnum = "ERR_ENDPROC" /\ stacktop = obs.last.sp
      [] obs.last.kind = "fn" -> errnum = "ERR_FNRETURN" /\ stacktop = obs.last.sp
      [] obs.last.kind = "gosub" -> errnum = "ERR_RETURN" /\ stacktop = obs.last.sp
      [] OTHER ->
           /\ errnum = "none"
           /\ \E item \in Expected(obs.last.kind) :
                stacktop = obs.last.sp + entrysize(item)

\* pop_proc has been called with a 64-bit integer on top of other entries
C14_Witness ==
  /\ PopMismatched
  /\ obs.last.kind = "proc"
  /\ obs.last.top = "STACK_INT64"
  /\ Len(stack) > 2
  /\ errnum = "ERR_ENDPROC"

\* a push or an allocation has been asked for
Pushed == obs.last.op = "push"

\* C15: a push or a stack allocation either raises ERR_STACKFULL or leaves
\* the stack pointer at or above the stack limit without an error, for the
\* pushes of control blocks, the saves of LOCAL, the pushes of values and
\* the allocation of local arrays.
C15_PushWithinLimit ==
  Pushed =>
    \/ errnum = "ERR_STACKFULL"
    \/ errnum = "none" /\ stacktop >= stacklimit

\* the same for the pushes of control blocks and the saves of LOCAL alone
C15_ControlPushWithinLimit ==
  (Pushed /\ obs.last.kind \in {"while", "local"}) =>
    \/ errnum = "ERR_STACKFULL" /\ stacktop < stacklimit
    \/ errnum = "none" /\ stacktop >= stacklimit

\* a push of a value has left the stack pointer below the stack limit
C15_ValueBelowLimit ==
  /\ Pushed /\ obs.last.kind = "int64"
  /\ errnum = "none" /\ stacktop < stacklimit

\* a local array did not fit
C15_ArrayNoRoom ==
  /\ Pushed /\ obs.last.kind = "locarray"
  /\ errnum = "ERR_BADDIM" /\ stacktop = obs.last.sp

\* a control block did not fit
C15_ControlNoRoom ==
  /\ Pushed /\ obs.last.kind = "while"
  /\ errnum = "ERR_STACKFULL" /\ Len(stack) > 1

(***************************************************************************)
(* The workspace and the tokens a byte at a time: a value is stored in the *)
(* workspace and read back, and a byte is asked whether it ends a          *)
(* statement.                                                              *)
(***************************************************************************)
MemTop == 11

\* what the workspace holds before the store
FillBytes == {0, 255, 165}

WordValues == {0, 1, -1, 255, 256, 65536, 16777216, 305419896, -19088744,
               2147483647, -2147483647 - 1}

Int64Pairs ==
  {Int64Words(hi, lo) : hi \in {0, -1, 19088743, -2147483647 - 1},
                        lo \in {0, -1, -1985229329, 2147483647}}

NoOp == [op |-> "none", offset |-> 0, value |-> 0, result |-> 0,
         before |-> <<>>]

InitBytes ==
  /\ \E fill \in FillBytes :
       StartBasicvars([init_stack EXCEPT !.memory = [a \in 0..MemTop |-> fill]])
  /\ obs = NoOp

DoStoreInteger ==
  /\ obs.op = "none"
  /\ \E offset \in 0..(MemTop - 3), value \in WordValues :
       /\ SetBasicvars(store_integer(basicvars, offset, value))
       /\ obs' = [op |-> "store_integer", offset |-> offset, value |-> value,
                  result |-> 0, before |-> memory]

DoGetInteger ==
  /\ obs.op = "store_integer"
  /\ SetBasicvars(basicvars)
  /\ obs' = [obs EXCEPT !.op = "get_integer",
                        !.result = get_integer(basicvars, obs.offset)]

DoStoreInt64 ==
  /\ obs.op = "none"
  /\ \E offset \in 0..(MemTop - 7), value \in Int64Pairs :
       /\ SetBasicvars(store_int64(basicvars, offset, value))
       /\ obs' = [op |-> "store_int64", offset |-> offset, value |-> value,
                  result |-> 0, before |-> memory]

DoGetInt64 ==
  /\ obs.op = "store_int64"
  /\ SetBasicvars(basicvars)
  /\ obs' = [obs EXCEPT !.op = "get_int64",
                        !.result = get_int64(basicvars, obs.offset)]

DoIsAteol ==
  /\ obs.op = "none"
  /\ \E p \in Bytes :
       /\ SetBasicvars(basicvars)
       /\ obs' = [obs EXCEPT !.op = "isateol", !.value = p,
                             !.result = isateol(p)]

DoCheckAteol ==
  /\ obs.op = "none"
  /\ \E p \in Bytes :
       /\ SetBasicvars(check_ateol(basicvars, p))
       /\ obs' = [obs EXCEPT !.op = "check_ateol", !.value = p]

NextBytes ==
  \/ DoStoreInteger \/ DoGetInteger \/ DoStoreInt64 \/ DoGetInt64
  \/ DoIsAteol \/ DoCheckAteol

SpecBytes == InitBytes /\ [][NextBytes]_vars

\* the tokens of the ELSE of a single line IF (statement.c, ateol: "ELSE at
\* A2, A3")
SingleElseTokens == {162, 163}

\* the bytes that end a statement
EndsStatement(p) == p \in {asc_NUL, 58} \cup SingleElseTokens

\* C24: isateol is true, and check_ateol raises no error, for the NUL at
\* the end of a line, for ':' and for the two tokens of the ELSE of a single
\* line IF.  For every other byte isateol is false and check_ateol raises a
\* syntax error: so for the tokens of the ELSE of a block IF, of WHEN and of
\* OTHERWISE.
C24_EndOfStatement ==
  /\ SingleElseTokens \subseteq ElseWhenTokens
  /\ obs.op = "isateol" => (obs.result = EndsStatement(obs.value))
  /\ obs.op = "check_ateol" =>
       /\ (errnum = "none") = EndsStatement(obs.value)
       /\ errnum \in {"none", "ERR_SYNTAX"}

\* a token of WHEN or OTHERWISE, or of the ELSE of a block IF, has been asked
\* about: it does not end a statement
C24_Witness ==
  /\ obs.op = "isateol"
  /\ statements[obs.value + 1] = "exec_xwhen"
  /\ obs.result = FALSE

\* one of the two tokens of ELSE that end a statement has been checked
C24_ElseEnds ==
  /\ obs.op = "check_ateol"
  /\ obs.value \in SingleElseTokens
  /\ errnum = "none"

\* C24 as stated: NUL, ':' and every token of ELSE, WHEN and OTHERWISE end a
\* statement, and no other byte does
C24_EveryKeywordForm ==
  obs.op = "isateol" =>
    (obs.result = (obs.value \in {asc_NUL, 58} \cup ElseWhenTokens))

\* C26: get_integer after store_integer at the same offset gives the 32-bit
\* value stored, and get_int64 after store_int64 the 64-bit value.  The store
\* has put byte n of the value, counted from the least significant, at
\* offset + n, and has left every byte outside the 4 or 8 as it was.
C26_StoreGetRoundTrip ==
  /\ obs.op \in {"store_integer", "get_integer"} =>
       /\ \A n \in 0..3 : memory[obs.offset + n] = ByteOf(obs.value, n)
       /\ \A a \in DOMAIN memory \ (obs.offset..(obs.offset + 3)) :
            memory[a] = obs.before[a]
  /\ obs.op = "get_integer" => obs.result = obs.value
  /\ obs.op \in {"store_int64", "get_int64"} =>
       /\ \A n \in 0..3 : memory[obs.offset + n] = ByteOf(obs.value.lo, n)
       /\ \A n \in 0..3 : memory[obs.offset + 4 + n] = ByteOf(obs.value.hi, n)
       /\ \A a \in DOMAIN memory \ (obs.offset..(obs.offset + 7)) :
            memory[a] = obs.before[a]
  /\ obs.op = "get_int64" => obs.result = obs.value

\* a 64-bit value with the top bit of its low word set and a high word of
\* its own has been stored at an odd offset and read back
C26_Witness ==
  /\ obs.op = "get_int64"
  /\ obs.offset = 3
  /\ obs.value = Int64Words(19088743, -1985229329)
  /\ obs.result = obs.value
  /\ obs.before[0] = 165 /\ memory[0] = 165 /\ memory[11] = 165
  /\ memory[3] = 239 /\ memory[10] = 1

\* a negative 32-bit value has been stored and read back
C26_Int32 ==
  /\ obs.op = "get_integer"
  /\ obs.offset = 5
  /\ obs.value = -19088744
  /\ obs.result = -19088744

(***************************************************************************)
(* The symbol tables on their own: variables are created in the table of   *)
(* the program and in the tables of two libraries, and names are looked up *)
(* from references inside and outside the libraries.                       *)
(***************************************************************************)
MaxVars == 3

Library(libstart, libsize) ==
  [libstart |-> libstart, libsize |-> libsize, varlists |-> EmptyTable]

\* AA and BN have the same hash value; D has another, which selects the
\* same list as theirs; A[ is A( written the other way
VarNames == {<<65, 65>>, <<66, 78>>, <<68>>, <<65, 40>>, <<65, 91>>}

\* addresses of references: in the program, in the library loaded by
\* LIBRARY (100 to 149) and in the installed library (150 to 199)
RefAddresses == {10, 99, 100, 149, 150, 199, 200}

Owners == {NIL, 100, 150}

\* the variables of every table
AllVariables ==
  LET Of(table) == UNION {{table[n][i] : i \in DOMAIN table[n]} : n \in DOMAIN table} IN
  Of(varlists) \cup UNION {Of(liblist[i].varlists) : i \in DOMAIN liblist}
               \cup UNION {Of(installist[i].varlists) : i \in DOMAIN installist}

Declared(name, lp) ==
  \E vp \in AllVariables : vp.varname = name /\ vp.varowner = lp

InitLibrary ==
  /\ StartBasicvars([init_stack EXCEPT
                       !.varlists = EmptyTable,
                       !.liblist = <<Library(100, 50)>>,
                       !.installist = <<Library(150, 50)>>])
  /\ obs = [op |-> "none", np |-> 0, name |-> <<>>, found |-> NoVariable]

DoCreateVariable ==
  /\ Cardinality(AllVariables) < MaxVars
  /\ \E varname \in VarNames, lp \in Owners :
       /\ ~Declared(NameOf(varname), lp)
       /\ SetBasicvars(create_variable_in(basicvars, varname, lp))
       /\ obs' = [op |-> "create_variable", np |-> lp, name |-> varname,
                  found |-> NoVariable]

DoFindVariable ==
  /\ \E np \in RefAddresses, varname \in VarNames :
       /\ SetBasicvars(basicvars)
       /\ obs' = [op |-> "find_variable", np |-> np, name |-> varname,
                  found |-> find_variable_at(basicvars, np, varname)]

NextLibrary == DoCreateVariable \/ DoFindVariable

SpecLibrary == InitLibrary /\ [][NextLibrary]_vars

\* the library that an address of RefAddresses lies in
LibraryOf(np) ==
  IF np \in 100..149 THEN 100 ELSE IF np \in 150..199 THEN 150 ELSE NIL

\* C25: find_variable, for a reference inside a library, gives the variable
\* of that name that the library has declared for itself when there is one,
\* and otherwise the variable of that name in the table of the program, or
\* nothing.  For a reference outside every library it gives the variable of
\* the table of the program or nothing.  It never gives a variable that
\* belongs to a library the reference is not in.
C25_FindVariable ==
  obs.op = "find_variable" =>
    LET name == NameOf(obs.name)
        lp == LibraryOf(obs.np) IN
    /\ IF lp # NIL /\ Declared(name, lp)
       THEN obs.found.varname = name /\ obs.found.varowner = lp
       ELSE IF Declared(name, NIL)
       THEN obs.found.varname = name /\ obs.found.varowner = NIL
       ELSE obs.found = NoVariable
    /\ obs.found.varowner \in {NIL, lp}
    /\ obs.found # NoVariable => obs.found.varhash = hash(name)

\* a name that the program, the library and the other library have each
\* declared is looked up from inside the library: the library's own is found
C25_Witness ==
  /\ obs.op = "find_variable"
  /\ obs.np = 149
  /\ obs.name = <<65, 65>>
  /\ Declared(<<65, 65>>, NIL) /\ Declared(<<65, 65>>, 100)
  /\ Declared(<<65, 65>>, 150)
  /\ obs.found.varowner = 100

\* a name that only a library has declared is looked up from the program,
\* where a variable with the same hash value is in the list: nothing is found
C25_OutsideNotFound ==
  /\ obs.op = "find_variable"
  /\ obs.np = 10
  /\ obs.name = <<65, 65>>
  /\ Declared(<<65, 65>>, 100) /\ Declared(<<66, 78>>, NIL)
  /\ hash(<<65, 65>>) = hash(<<66, 78>>)
  /\ obs.found = NoVariable

\* a name that the library has not declared is looked up from inside it: the
\* variable of the program is found
C25_FallsBack ==
  /\ obs.op = "find_variable"
  /\ obs.np = 150
  /\ obs.name = <<65, 91>>
  /\ Declared(<<65, 40>>, NIL) /\ Declared(<<68>>, 150)
  /\ ~Declared(<<65, 40>>, 150)
  /\ obs.found.varowner = NIL /\ obs.found.varname = <<65, 40>>


(***************************************************************************)
(* READ of one field of a DATA line into a string variable.  The line is   *)
(* in the workspace from DataAt, basicvars.datacur is at its first byte,   *)
(* and S$ holds a string already.                                          *)
(***************************************************************************)
MaxData == 6

DataAt == 0

\* where the string of READ $TargetAt goes
TargetAt == MaxData + 3

\* the bytes of the lines: a quote, a letter and a comma
DataBytes == {asc_QUOTE, 65, asc_COMMA}

RECURSIVE LinesOf(_)
LinesOf(n) ==
  IF n = 0 THEN {<<>>}
  ELSE LinesOf(n - 1)
         \cup {Append(l, b) : l \in {x \in LinesOf(n - 1) : Len(x) = n - 1},
                              b \in DataBytes}

\* every line of up to MaxData bytes, and the lines in quotes with a blank
\* before the field
DataLines ==
  LinesOf(MaxData)
    \cup {<<asc_SPACE>> \o l : l \in {x \in LinesOf(MaxData - 1) :
                                       Len(x) > 0 /\ x[1] = asc_QUOTE}}

\* what S$ holds before the READ
OldStrings == {<<>>, <<66>>, <<66, 67>>, <<66, 67, 68>>}

\* what a block of the string heap holds when alloc_string hands it out
JunkBytes == {0, 90}

\* the workspace with the line in it, NUL after it, and 'fill' at the target
DataWorkspace(line, fill) ==
  [a \in 0..(TargetAt + MaxData + 1) |->
     IF a - DataAt + 1 \in DOMAIN line THEN line[a - DataAt + 1]
     ELSE IF a < TargetAt THEN asc_NUL ELSE fill]

InitData ==
  /\ \E line \in DataLines, old \in OldStrings :
       /\ StartBasicvars(
            [alloc_string(init_stack, old) EXCEPT
               !.memory = DataWorkspace(line, 255),
               !.datacur = DataAt,
               !.varlists = [n \in {"S$"} |->
                  Descriptor(Len(old), NewStringAddr(init_stack, old))]])
       /\ obs = [op |-> "none", line |-> line, old |-> old]

DoReadString ==
  /\ obs.op = "none"
  /\ \E j \in JunkBytes :
       SetBasicvars(read_string(basicvars, Lvalue("VAR_STRINGDOL", "S$"),
                                [i \in 1..(MaxData + 1) |-> j]))
  /\ obs' = [obs EXCEPT !.op = "VAR_STRINGDOL"]

DoReadIndirect ==
  /\ obs.op = "none"
  /\ SetBasicvars(read_string(basicvars, Lvalue("VAR_DOLSTRPTR", TargetAt),
                              <<>>))
  /\ obs' = [obs EXCEPT !.op = "VAR_DOLSTRPTR"]

DoReadArray ==
  /\ obs.op = "none"
  /\ SetBasicvars(read_string(basicvars, Lvalue("VAR_STRARRAY", "S$"), <<>>))
  /\ obs' = [obs EXCEPT !.op = "VAR_STRARRAY"]

NextData == DoReadString \/ DoReadIndirect \/ DoReadArray

SpecData == InitData /\ [][NextData]_vars

\* the field of the line starts with a quote
InQuotes(line) ==
  \E i \in DOMAIN line :
    /\ line[i] = asc_QUOTE
    /\ \A k \in 1..(i - 1) : line[k] = asc_SPACE

FirstQuote(line) == CHOOSE i \in DOMAIN line : line[i] = asc_QUOTE

\* The text in quotes from byte i of the line on: two quotes in a row stand
\* for one quote of the text and a single quote ends it.  'pairs' counts the
\* doubled quotes; closed is FALSE when the line ends first.
RECURSIVE QuotedText(_, _)
QuotedText(line, i) ==
  IF i > Len(line) THEN [closed |-> FALSE, text |-> <<>>, pairs |-> 0, last |-> i]
  ELSE IF line[i] = asc_QUOTE /\ i < Len(line) /\ line[i + 1] = asc_QUOTE
  THEN With(QuotedText(line, i + 2), LAMBDA r :
         [r EXCEPT !.text = <<asc_QUOTE>> \o @, !.pairs = @ + 1])
  ELSE IF line[i] = asc_QUOTE
  THEN [closed |-> TRUE, text |-> <<>>, pairs |-> 0, last |-> i]
  ELSE With(QuotedText(line, i + 1), LAMBDA r :
         [r EXCEPT !.text = <<line[i]>> \o @])

\* no four quotes in a row in the line
NoTwoPairs ==
  \A i \in 1..(Len(obs.line) - 3) :
    ~(\A k \in i..(i + 3) : obs.line[k] = asc_QUOTE)

\* the field of the line that has been read
Field == QuotedText(obs.line, FirstQuote(obs.line) + 1)

\* READ S$ has been carried out on a line whose field is in quotes
ReadQuoted == obs.op = "VAR_STRINGDOL" /\ InQuotes(obs.line)

\* C32: READ into a string variable from a field in quotes stores the text
\* between the quotes with one quote for each two in a row, the length of
\* the string is the number of bytes of that text, which is the length of
\* the field less the number of doubled quotes, and a field whose closing
\* quote is missing raises 'missing quote'.
C32_ReadQuotedField ==
  ReadQuoted =>
    IF Field.closed
    THEN /\ errnum = "none"
         /\ StringBytes(basicvars, Deref(basicvars, "S$")) = Field.text
         /\ Deref(basicvars, "S$").stringlen = Len(Field.text)
         /\ Len(Field.text)
              = (Field.last - FirstQuote(obs.line) - 1) - Field.pairs
    ELSE errnum = "ERR_QUOTEMISS"

\* the string has the length of the field as it is written, doubled quotes
\* counted twice, and the text stored is at the start of it
C32_LengthOfField ==
  (ReadQuoted /\ errnum = "none" /\ Field.closed /\ NoTwoPairs)
    => /\ Deref(basicvars, "S$").stringlen = Len(Field.text) + Field.pairs
       /\ SubSeq(StringBytes(basicvars, Deref(basicvars, "S$")), 1,
                 Len(Field.text)) = Field.text

\* a field with no doubled quote is stored as the claim says
C32_NoDoubledQuote ==
  (ReadQuoted /\ Field.closed /\ Field.pairs = 0)
    => /\ errnum = "none"
       /\ StringBytes(basicvars, Deref(basicvars, "S$")) = Field.text
       /\ Deref(basicvars, "S$").stringlen = Len(Field.text)

\* a field whose closing quote is missing, with no two doubled quotes in a
\* row, raises the error and leaves S$ and the DATA pointer as they were
C32_QuoteMissing ==
  (obs.op \in {"VAR_STRINGDOL", "VAR_DOLSTRPTR"} /\ InQuotes(obs.line)
   /\ ~Field.closed /\ NoTwoPairs)
    => /\ errnum = "ERR_QUOTEMISS"
       /\ datacur = DataAt
       /\ StringBytes(basicvars, Deref(basicvars, "S$")) = obs.old

\* "A""A" has been read: the text A"A is stored in a string of four bytes,
\* the last of them what the block held before
C32_DoubledQuoteRead ==
  /\ ReadQuoted
  /\ obs.line = <<34, 65, 34, 34, 65, 34>>
  /\ errnum = "none"
  /\ Deref(basicvars, "S$").stringlen = 4
  /\ StringBytes(basicvars, Deref(basicvars, "S$")) = <<65, 34, 65, 90>>

\* """""" (two doubled quotes between the quotes) has been read as one
\* quote: the loop has taken the second pair for the end of the field
C32_SecondPairEndsField ==
  /\ ReadQuoted
  /\ obs.line = <<34, 34, 34, 34, 34, 34>>
  /\ Field.closed /\ Field.text = <<34, 34>>
  /\ errnum = "none"
  /\ Deref(basicvars, "S$").stringlen = 2
  /\ StringBytes(basicvars, Deref(basicvars, "S$"))[1] = 34

\* "A"""" (no closing quote after the two doubled quotes) has been read
\* with no error
C32_MissingQuoteAccepted ==
  /\ ReadQuoted
  /\ obs.line = <<34, 65, 34, 34, 34, 34>>
  /\ ~Field.closed
  /\ errnum = "none"
  /\ Deref(basicvars, "S$").stringlen = 3

\* READ $TargetAt puts the carriage return after the text
C32_IndirectLength ==
  (obs.op = "VAR_DOLSTRPTR" /\ InQuotes(obs.line) /\ Field.closed
   /\ NoTwoPairs)
    => /\ errnum = "none"
       /\ MemBytes(basicvars, TargetAt, Len(Field.text)) = Field.text
       /\ Peek(basicvars, TargetAt + Len(Field.text)) = asc_CR

\* a doubled quote has been read to $TargetAt
C32_IndirectRead ==
  /\ obs.op = "VAR_DOLSTRPTR"
  /\ obs.line = <<34, 65, 34, 34, 65, 34>>
  /\ MemBytes(basicvars, TargetAt, 4) = <<65, 34, 65, asc_CR>>

====
